---- MODULE Spec2Model ----
(***************************************************************************)
(* Model of the indexing / retrieval / deletion core of autofill-app       *)
(* (backend/database/pinecone_client.py, backend/services/rag_service.py,  *)
(* backend/services/document_processor.py, backend/main.py).               *)
(*                                                                         *)
(* The vector index and the metadata store are external services.  The    *)
(* index is modelled by its content; every call the adapter makes on it    *)
(* (query, delete, upsert) is atomic and may raise.                        *)
(***************************************************************************)
EXTENDS Integers, Sequences, FiniteSets, TLC

VARIABLES
    index,      \* vector index: number of vectors per metadata class
    docs,       \* rows of the uploaded_documents table
    files,      \* doc ids whose uploaded file is on disk
    nextId,     \* number of uuids handed out by upload
    nWrites,    \* number of upload and upsert_embeddings calls made
    tasks,      \* background tasks added by upload, by file id
    del,        \* the running delete_document_vectors_comprehensive call
    req,        \* the running delete_document request
    vecs,       \* vector index: the records retrieval reads (metadata, embedding)
    out,        \* the last retrieval call: its arguments and what it returned
    cfg,        \* what start-up found: the OpenAI key, the Pinecone client and index
    piped,      \* file ids whose document went through process_document_pipeline
    parse,      \* a call of the transaction parser: its input and what it returned
    extract,    \* a call of the field extractor: its input and what it returned
    batch       \* a call of the adapter or of the pipeline: its input, the requests
                \* sent to the index and what it returned

vars == <<index, docs, files, nextId, nWrites, tasks, del, req, vecs, out, cfg, piped,
          parse, extract, batch>>

\* the calls of the pure functions of the services, which read and write
\* nothing else
libVars == <<parse, extract, batch>>

\* the state of the application, which those calls leave alone
appVars == <<index, docs, files, nextId, nWrites, tasks, del, req, vecs, out, cfg, piped>>

\* the part of the state the retrieval path reads and writes, and the
\* configuration, which no call changes
searchVars == <<vecs, out, cfg, libVars>>

(***************************************************************************)
(* Bounds and program constants                                            *)
(***************************************************************************)
MaxWrites == 2      \* upload and upsert_embeddings calls per behaviour

TopKAll == 10000    \* top_k of the three strategy queries
VerifyTopK == 10    \* top_k of the final verification query

Users == {"u1", "u2"}
Filenames == {"a.pdf", "b.pdf"}

DocIds == 1..MaxWrites               \* the uuids upload hands out

\* the name upload saves a file under: the file id followed by the extension
SafeFilename(file_id) == ToString(file_id) \o ".pdf"
DiskNames == {SafeFilename(i) : i \in DocIds}

StaleDoc == MaxWrites + 1           \* a doc_id no document record carries
DocTags == {StaleDoc} \cup DocIds   \* doc_id values a vector may be tagged with

DemoUser == "u1"      \* DEMO_USER_UUID: the user the reprocessing script writes for

\* metadata of a VectorRecord, as far as deletion reads it: vectors written
\* for a user and a file name as uploaded, and the vectors the reprocessing
\* script writes (demo user, fresh doc_id, the file's name on disk)
Classes ==
    [doc_id : DocTags, user_id : Users, filename : Filenames]
        \cup [doc_id : {StaleDoc}, user_id : {DemoUser}, filename : DiskNames]

\* how many vectors one upsert_embeddings call may carry
UpsertSizes == {1, 3 * TopKAll + 1}

(***************************************************************************)
(* Helpers over the index                                                  *)
(***************************************************************************)
Min(a, b) == IF a < b THEN a ELSE b

RECURSIVE SumOver(_, _)
SumOver(m, S) ==
    IF S = {} THEN 0
    ELSE LET c == CHOOSE x \in S : TRUE IN m[c] + SumOver(m, S \ {c})

Total(m) == SumOver(m, {c \in DOMAIN m : m[c] > 0})

\* Pinecone metadata filter: equality on every key the filter names
Matches(c, f) ==
    /\ ("doc_id" \in f.keys => c.doc_id = f.doc_id)
    /\ ("user_id" \in f.keys => c.user_id = f.user_id)
    /\ ("filename" \in f.keys => c.filename = f.filename)

\* a filter naming the keys in `keys`; the values of the other keys are unused
Filter(keys, d, u, fn) == [keys |-> keys, doc_id |-> d, user_id |-> u, filename |-> fn]

\* index.query(filter, top_k): the possible answers.  At most top_k vectors
\* come back; which ones, when more match, is the backend's choice (the
\* adapter queries with a dummy all-zero vector).
QueryMatches(idx, f, k) ==
    LET M == {c \in Classes : Matches(c, f) /\ idx[c] > 0}
        tot == SumOver(idx, M)
    IN  IF tot <= k
        THEN {[c \in Classes |-> IF c \in M THEN idx[c] ELSE 0]}
        ELSE LET b == CHOOSE c \in M : \A c2 \in M : idx[c2] <= idx[c]
                 O == M \ {b}
                 cap == IF O = {} THEN 0
                        ELSE Min(k, idx[CHOOSE c \in O : \A c2 \in O : idx[c2] <= idx[c]])
             IN  {[c \in Classes |->
                      IF c \in O THEN mo[c]
                      ELSE IF c = b THEN k - SumOver(mo, O) ELSE 0] :
                  mo \in {x \in [O -> 0..cap] :
                            /\ \A c \in O : x[c] <= idx[c]
                            /\ k - SumOver(x, O) >= 0
                            /\ k - SumOver(x, O) <= idx[b]}}

\* index.delete(ids)
DeleteIds(idx, m) == [c \in Classes |-> idx[c] - m[c]]

CountWhere(idx, f) == SumOver(idx, {c \in Classes : Matches(c, f) /\ idx[c] > 0})

(***************************************************************************)
(* delete_document_vectors_comprehensive                                   *)
(***************************************************************************)
\* faulty variant: strategy 2 filters by doc_id and filename instead of user_id and filename
StrategyFilterByDoc(i, d, u, fn) ==
    IF i = 1 THEN Filter({"doc_id"}, d, u, fn)
    ELSE IF i = 2 THEN Filter({"doc_id", "filename"}, d, u, fn)
    ELSE Filter({"filename"}, d, u, fn)

\* the filter of strategy i
StrategyFilter(i, d, u, fn) ==
    IF i = 1 THEN Filter({"doc_id"}, d, u, fn)
    ELSE IF i = 2 THEN Filter({"user_id", "filename"}, d, u, fn)
    ELSE Filter({"filename"}, d, u, fn)

StratPc(i) == IF i = 1 THEN "s1" ELSE IF i = 2 THEN "s2" ELSE "s3"

\* faulty variant: an exception in a strategy skips the strategies after it
AfterStrategyAbort(i, failed) ==
    IF failed THEN "verify" ELSE IF i = 1 THEN "s2" ELSE IF i = 2 THEN "s3" ELSE "verify"

\* where control goes after strategy i, whether or not it raised
AfterStrategy(i, failed) == IF i = 1 THEN "s2" ELSE IF i = 2 THEN "s3" ELSE "verify"

\* the filter of the final verification query
VerifyFilter(d, u, fn) == Filter({"doc_id"}, d, u, fn)

\* faulty variant: success is reported only when something was deleted
VerifyReturnIfDeleted(vout) ==
    IF vout = "empty" /\ del.total_deleted > 0 THEN "true" ELSE "false"

\* the value returned, given how the verification query ended
VerifyReturn(vout) == IF vout = "empty" THEN "true" ELSE "false"

\* faulty variant: remaining matches start the strategies again
AfterVerifyRetry(vout) == IF vout = "found" THEN "s1" ELSE "done"

\* where control goes after the verification
AfterVerify(vout) == "done"

Call(op, i, f, n, ok) == [op |-> op, strat |-> i, filter |-> f, n |-> n, ok |-> ok]

NoReq == [pc |-> "idle", doc_id |-> StaleDoc, user_id |-> "u1", status |-> 0,
          deletion_success |-> "none"]

\* the state of a comprehensive deletion: its arguments, its position, the
\* index calls made so far (log), the outcome of the verification query
\* (vout), the value returned (result), total_deleted as in the code, and two
\* observations the properties refer to: dirty (an upsert ran during the call)
\* and homog (when the call started, every vector tagged with doc_id carried
\* the call's user_id and filename)
NoDel == [pc |-> "idle", doc_id |-> StaleDoc, user_id |-> "u1", filename |-> "a.pdf",
          log |-> <<>>, vout |-> "none", result |-> "none", dirty |-> FALSE,
          total_deleted |-> 0, homog |-> TRUE]

StartDel(d, u, fn) ==
    [pc |-> "s1", doc_id |-> d, user_id |-> u, filename |-> fn,
     log |-> <<>>, vout |-> "none", result |-> "none", dirty |-> FALSE,
     total_deleted |-> 0,
     homog |-> \A c \in Classes :
                 (c.doc_id = d /\ index[c] > 0) => (c.user_id = u /\ c.filename = fn)]

\* one strategy: query by the strategy's filter, delete what matched;
\* an exception of either call is caught and the next strategy runs
Strategy(i) ==
    /\ del.pc = StratPc(i)
    /\ LET f == StrategyFilter(i, del.doc_id, del.user_id, del.filename) IN
       \E qok \in BOOLEAN :
          IF ~qok
          THEN /\ del' = [del EXCEPT !.pc = AfterStrategy(i, TRUE),
                                     !.log = Append(@, Call("query", i, f, 0, FALSE))]
               /\ UNCHANGED index
          ELSE \E m \in QueryMatches(index, f, TopKAll) :
                 IF Total(m) = 0
                 THEN /\ del' = [del EXCEPT !.pc = AfterStrategy(i, FALSE),
                                            !.log = Append(@, Call("query", i, f, 0, TRUE))]
                      /\ UNCHANGED index
                 ELSE \E dok \in BOOLEAN :
                        /\ index' = IF dok THEN DeleteIds(index, m) ELSE index
                        /\ del' = [del EXCEPT
                                     !.pc = AfterStrategy(i, ~dok),
                                     !.total_deleted = IF dok THEN @ + Total(m) ELSE @,
                                     !.log = @ \o <<Call("query", i, f, Total(m), TRUE),
                                                    Call("delete", i, f, Total(m), dok)>>]
    /\ UNCHANGED <<docs, files, nextId, nWrites, tasks, req, piped, searchVars>>

Strategy1 == Strategy(1)
Strategy2 == Strategy(2)
Strategy3 == Strategy(3)

\* the propagation wait and the final verification query; an exception here
\* reaches the outer handler, which returns False
Verify ==
    /\ del.pc = "verify"
    /\ LET f == VerifyFilter(del.doc_id, del.user_id, del.filename) IN
       \E qok \in BOOLEAN :
          IF ~qok
          THEN del' = [del EXCEPT !.pc = AfterVerify("error"), !.vout = "error",
                                  !.result = VerifyReturn("error"),
                                  !.log = Append(@, Call("query", 4, f, 0, FALSE))]
          ELSE \E m \in QueryMatches(index, f, VerifyTopK) :
                 LET vo == IF Total(m) > 0 THEN "found" ELSE "empty" IN
                 del' = [del EXCEPT !.pc = AfterVerify(vo), !.vout = vo,
                                    !.result = VerifyReturn(vo),
                                    !.log = Append(@, Call("query", 4, f, Total(m), TRUE))]
    /\ UNCHANGED <<index, docs, files, nextId, nWrites, tasks, req, piped, searchVars>>

(***************************************************************************)
(* upsert_embeddings                                                       *)
(***************************************************************************)
\* the index after n vectors of class c are written
UpsertInto(idx, c, n) == [idx EXCEPT ![c] = @ + n]

\* a caller of the adapter writes n vectors carrying metadata c, tagged with
\* the doc_id of an uploaded document or with a doc_id no record carries
Upsert ==
    /\ nWrites < MaxWrites
    /\ \E c \in Classes, n \in UpsertSizes :
         /\ c.doc_id \in (1..nextId) \cup {StaleDoc}
         /\ c.filename \in Filenames      \* the reprocessing script is not run here
         /\ n > TopKAll => \A c2 \in Classes : index[c2] <= TopKAll
         /\ index' = UpsertInto(index, c, n)
    /\ nWrites' = nWrites + 1
    /\ del' = IF req.pc = "vectors" THEN [del EXCEPT !.dirty = TRUE] ELSE NoDel
    /\ req' = IF req.pc = "vectors" THEN req ELSE NoReq
    /\ UNCHANGED <<docs, files, nextId, tasks, piped, searchVars>>

(***************************************************************************)
(* upload_documents                                                        *)
(***************************************************************************)
\* doc_id is the task's local variable, 0 while it is None; faulted observes
\* that a call of the task on the metadata store raised
NoTask == [pc |-> "none", filename |-> "a.pdf", user_id |-> "u1", doc_id |-> 0,
           faulted |-> FALSE]

\* one uploaded file: saved under a fresh uuid, a document record created
\* with status uploaded (unless the metadata store refuses), a background
\* task added with (file_path, filename, user_id) when an OpenAI key is set
Upload ==
    /\ nWrites < MaxWrites
    /\ \E u \in Users, fn \in Filenames, recOk \in BOOLEAN :
         LET id == nextId + 1 IN
         /\ nextId' = id
         /\ files' = files \cup {id}
         /\ docs' = IF recOk
                    THEN docs \cup {[doc_id |-> id, user_id |-> u, filename |-> fn,
                                     processing_status |-> "uploaded"]}
                    ELSE docs
         /\ tasks' = IF cfg.openai_key
                     THEN [tasks EXCEPT ![id] = [pc |-> "start", filename |-> fn,
                                                 user_id |-> u, doc_id |-> 0,
                                                 faulted |-> FALSE]]
                     ELSE tasks
    /\ nWrites' = nWrites + 1
    /\ del' = IF req.pc = "vectors" THEN del ELSE NoDel
    /\ req' = IF req.pc = "vectors" THEN req ELSE NoReq
    /\ UNCHANGED <<index, piped, searchVars>>

(***************************************************************************)
(* process_document_pipeline                                               *)
(***************************************************************************)
\* faulty variant: the chunks are embedded whether or not a key is configured
generate_embeddings_nocheck(nchunks, has_openai_key) == nchunks

\* the number of vectors generate_embeddings returns for nchunks chunks:
\* without an OpenAI key the empty list, with no exception
generate_embeddings(nchunks, has_openai_key) ==
    IF ~has_openai_key THEN 0 ELSE nchunks

\* the number of vectors generate_field_embeddings returns for nfields
\* extracted fields
generate_field_embeddings(nfields, has_openai_key) ==
    IF ~has_openai_key THEN 0 ELSE nfields

\* all_vectors of the pipeline for a document of nchunks chunks and nfields fields
PipelineVectors(nchunks, nfields, has_openai_key) ==
    generate_embeddings(nchunks, has_openai_key)
        + generate_field_embeddings(nfields, has_openai_key)

\* upsert_embeddings is called only for a non-empty list; without a client
\* it returns False, without an index index.upsert raises
PipelineRaises(n, pinecone) == n > 0 /\ pinecone = "no_index"
PipelineWrites(n, pinecone) == IF pinecone = "ready" THEN n ELSE 0

(***************************************************************************)
(* process_document_background                                             *)
(***************************************************************************)
ProcessDocumentParams == 2   \* process_document(self, file_path, filename)
ProcessDocumentArgs == 3     \* the task calls it with (file_path, filename, doc_id)

\* update(processing_status).eq('doc_id', d)
SetStatus(rows, d, status) ==
    {IF r.doc_id = d THEN [r EXCEPT !.processing_status = status] ELSE r : r \in rows}

\* select('*').eq('filename', fn).eq('user_id', u): the rows found
RowsOf(fn, u) == {r \in docs : r.filename = fn /\ r.user_id = u}

\* faulty variant: every call is accepted
CallAcceptedAny(nargs, nparams) == TRUE

\* a call with more arguments than parameters raises TypeError
CallAccepted(nargs, nparams) == nargs = nparams

\* the task starts.  Without its file it marks the first row found for its
\* filename and user as failed and ends.  Otherwise it takes the doc_id of the
\* first row found and marks it as processing; an exception of the metadata
\* store is logged.  The order of the rows found is the store's.
TaskStart(id) ==
    /\ tasks[id].pc = "start"
    /\ LET t == tasks[id]
           rows == RowsOf(t.filename, t.user_id) IN
       \E selOk \in BOOLEAN, updOk \in BOOLEAN :
          IF id \notin files
          THEN /\ tasks' = [tasks EXCEPT ![id].pc = "done",
                                         ![id].faulted = ~selOk \/ (rows # {} /\ ~updOk)]
               /\ IF selOk /\ updOk /\ rows # {}
                  THEN \E r \in rows : docs' = SetStatus(docs, r.doc_id, "failed")
                  ELSE docs' = docs
          ELSE IF selOk /\ rows # {}
               THEN \E r \in rows :
                      /\ tasks' = [tasks EXCEPT ![id].pc = "process", ![id].doc_id = r.doc_id,
                                                ![id].faulted = ~updOk]
                      /\ docs' = IF updOk THEN SetStatus(docs, r.doc_id, "processing")
                                 ELSE docs
               ELSE /\ tasks' = [tasks EXCEPT ![id].pc = "process", ![id].faulted = ~selOk]
                    /\ docs' = docs
    /\ UNCHANGED <<index, files, nextId, nWrites, del, req, piped, searchVars>>

\* the call of process_document.  Accepted, the document is extracted under
\* a fresh doc_id, its chunk and field vectors are upserted with the task's
\* user_id and that doc_id, and the row of the task's doc_id is marked as
\* completed.  Not accepted, the exception handler runs next.
TaskProcess(id) ==
    /\ tasks[id].pc = "process"
    /\ LET t == tasks[id]
           n == PipelineVectors(1, 1, cfg.openai_key) IN
       IF CallAccepted(ProcessDocumentArgs, ProcessDocumentParams)
       THEN /\ index' = UpsertInto(index, [doc_id |-> StaleDoc, user_id |-> t.user_id,
                                           filename |-> t.filename],
                                   PipelineWrites(n, cfg.pinecone))
            /\ piped' = piped \cup {id}
            /\ IF PipelineRaises(n, cfg.pinecone)
               THEN /\ tasks' = [tasks EXCEPT ![id].pc = "except"]
                    /\ docs' = docs
               ELSE /\ tasks' = [tasks EXCEPT ![id].pc = "done"]
                    /\ docs' = IF t.doc_id # 0
                               THEN SetStatus(docs, t.doc_id, "completed") ELSE docs
       ELSE /\ tasks' = [tasks EXCEPT ![id].pc = "except"]
            /\ UNCHANGED <<index, docs, piped>>
    /\ UNCHANGED <<files, nextId, nWrites, del, req, searchVars>>

\* the exception handler: the first row found for the task's filename and
\* user is marked as failed
TaskExcept(id) ==
    /\ tasks[id].pc = "except"
    /\ LET t == tasks[id]
           rows == RowsOf(t.filename, t.user_id) IN
       \E ok \in BOOLEAN :
          /\ IF ok /\ rows # {}
             THEN \E r \in rows : docs' = SetStatus(docs, r.doc_id, "failed")
             ELSE docs' = docs
          /\ tasks' = [tasks EXCEPT ![id].pc = "done", ![id].faulted = @ \/ ~ok]
    /\ UNCHANGED <<index, files, nextId, nWrites, del, req, piped, searchVars>>

TaskStartStep == \E id \in DocIds : TaskStart(id)
TaskProcessStep == \E id \in DocIds : TaskProcess(id)
TaskExceptStep == \E id \in DocIds : TaskExcept(id)

(***************************************************************************)
(* optimize_performance: the uploaded files are processed again            *)
(***************************************************************************)
ClearTopK == 1000     \* top_k of the query that clears the demo user's vectors

RECURSIVE UpsertEach(_, _)
UpsertEach(idx, W) ==
    IF W = {} THEN idx
    ELSE LET id == CHOOSE x \in W : TRUE IN
         UpsertEach(UpsertInto(idx, [doc_id |-> StaleDoc, user_id |-> DemoUser,
                                     filename |-> SafeFilename(id)],
                               PipelineWrites(PipelineVectors(1, 1, cfg.openai_key),
                                              cfg.pinecone)),
                    W \ {id})

\* one run of the script.  The demo user's vectors are queried with an
\* all-zero vector and those at or above the similarity threshold deleted:
\* all scores are equal, so all of the matches pass or none does (also when
\* the query raises).  Then every file in the upload directory is processed
\* under its name on disk: process_document gives it a fresh doc_id and the
\* pipeline upserts its vectors with the demo user's id; a file whose
\* processing raises before the pipeline (W: the files that reach it) is
\* skipped.
Reprocess ==
    /\ nWrites < MaxWrites
    /\ \E cleared \in BOOLEAN, W \in SUBSET files :
         /\ cleared => cfg.pinecone = "ready"
         /\ \E m \in QueryMatches(index, [keys |-> {"user_id"}, doc_id |-> StaleDoc,
                                          user_id |-> DemoUser, filename |-> "a.pdf"],
                                  ClearTopK) :
               index' = UpsertEach(IF cleared THEN DeleteIds(index, m) ELSE index, W)
         /\ piped' = piped \cup W
    /\ nWrites' = nWrites + 1
    /\ UNCHANGED <<docs, files, nextId, tasks, del, req, searchVars>>

(***************************************************************************)
(* delete_document                                                         *)
(***************************************************************************)
\* what the handler answers once the record delete went through, given what
\* the vector deletion returned
DeleteResponse(deletion_success) == 200

\* the request arrives: the record is looked up by doc_id and user_id; no
\* row or a failed lookup ends the request with 500; otherwise the
\* comprehensive vector deletion starts with the record's filename
DeleteRequest ==
    /\ req.pc \in {"idle", "done"}
    /\ \E d \in DocIds, u \in Users, lookupOk \in BOOLEAN :
         LET rows == {r \in docs : r.doc_id = d /\ r.user_id = u} IN
         IF ~lookupOk \/ rows = {}
         THEN /\ req' = [NoReq EXCEPT !.pc = "done", !.status = 500]
              /\ del' = NoDel
         ELSE \E r \in rows :
              /\ req' = [pc |-> "vectors", doc_id |-> d, user_id |-> u, status |-> 0,
                         deletion_success |-> "none"]
              /\ del' = StartDel(d, u, r.filename)
    /\ UNCHANGED <<index, docs, files, nextId, nWrites, tasks, piped, searchVars>>

\* after the vector deletion returned: chunk rows, transactions and the file
\* are removed best-effort, then the document record; the answer is 200
\* unless the record delete raises (500)
DeleteCleanup ==
    /\ req.pc = "vectors"
    /\ del.pc = "done"
    /\ files' = files \ {req.doc_id}
    /\ \E recOk \in BOOLEAN :
         IF recOk
         THEN /\ docs' = {r \in docs : ~(r.doc_id = req.doc_id /\ r.user_id = req.user_id)}
              /\ req' = [req EXCEPT !.pc = "done", !.deletion_success = del.result,
                                    !.status = DeleteResponse(del.result)]
         ELSE /\ docs' = docs
              /\ req' = [req EXCEPT !.pc = "done", !.deletion_success = del.result,
                                    !.status = 500]
    /\ UNCHANGED <<index, nextId, nWrites, tasks, del, piped, searchVars>>

(***************************************************************************)
(* Retrieval: the index as search reads it                                 *)
(***************************************************************************)
TOP_K == 10                  \* settings.TOP_K
SIMILARITY_THRESHOLD == 50   \* settings.SIMILARITY_THRESHOLD (0.5), in percent
FieldTopK == 5               \* top_k of the field search made by search_documents
MatchTopK == 3               \* top_k of the searches made by match_form_field

\* room for one vector more than the smallest top_k, so that top_k cuts
MaxVecs == MatchTopK + 1

Embs == 0..1                          \* embeddings of stored texts, as points on a line
StoredFieldTypes == {"phone", "email"}
Confidences == {50, 100}              \* extraction confidence, in percent

\* the metadata and embedding of a vector: a text chunk (no type key, a text)
\* or an extracted field (type 'field', field_type, confidence)
ChunkVecs == [user_id : Users, type : {"chunk"}, field_type : {"none"},
              emb : Embs, confidence : {100}]
FieldVecs == [user_id : Users, type : {"field"}, field_type : StoredFieldTypes,
              emb : Embs, confidence : Confidences]
VecUniverse == ChunkVecs \cup FieldVecs

Abs(x) == IF x < 0 THEN -x ELSE x

\* the similarity score the index reports for a vector and a query, in
\* percent: 80 for the nearest texts, less with the distance
Similarity(e, q) == 80 - 30 * Abs(e - q)

\* a text is the sequence of its words; the keywords (other than the word
\* itself) that occur inside each word
WordKeywords(w) ==
    IF w = "email" THEN {"email", "mail"}
    ELSE IF w \in {"invoice", "total", "what", "is"} THEN {}
    ELSE {w}

\* keyword in text: a one-word keyword occurs inside some word, a phrase
\* occurs as consecutive words
Contains(text, kw) ==
    IF Len(kw) = 1
    THEN \E i \in 1..Len(text) : kw[1] \in WordKeywords(text[i])
    ELSE \E i \in 1..Len(text) :
            i + Len(kw) - 1 <= Len(text) /\ SubSeq(text, i, i + Len(kw) - 1) = kw

\* the embedding backend: texts about mail, about phones, about anything else
Embed(text) ==
    IF Contains(text, <<"mail">>) THEN 1
    ELSE IF \E w \in {"phone", "tel", "mobile"} : Contains(text, <<w>>) THEN 0
    ELSE 2

\* index.query(vector, filter, top_k): the possible answers, the top_k best
\* scoring vectors among those whose metadata equal the filter on every key
\* the filter names; equal scores are ordered as the backend likes
VecMatches(v, f) == \A k \in DOMAIN f : v[k] = f[k]

IndexQuery(V, f, q, k) ==
    LET M == {v \in V : VecMatches(v, f)}
        n == Min(k, Cardinality(M))
    IN  {T \in SUBSET M :
            /\ Cardinality(T) = n
            /\ \A t \in T, m \in M \ T : Similarity(t.emb, q) >= Similarity(m.emb, q)}

\* the matches at or above the similarity threshold, with their scores
FormatMatches(T, q) ==
    {[vec |-> t, score |-> Similarity(t.emb, q)] :
        t \in {x \in T : Similarity(x.emb, q) >= SIMILARITY_THRESHOLD}}

\* faulty variant: search_similar queries without a filter
SimilarFilterNone(user_id) == [k \in {} |-> k]

\* the filter of search_similar
SimilarFilter(user_id) == [user_id |-> user_id]

search_similar(V, q, user_id, top_k) ==
    {FormatMatches(T, q) : T \in IndexQuery(V, SimilarFilter(user_id), q, top_k)}

search_similar_with_filter(V, q, filter, top_k) ==
    {FormatMatches(T, q) : T \in IndexQuery(V, filter, q, top_k)}

(***************************************************************************)
(* search_field_matches                                                    *)
(***************************************************************************)
\* form field types mapped to the stored field types searched for them
field_type_mappings ==
    [tel |-> {"phone"}, phone |-> {"phone"}, email |-> {"email"},
     text |-> {"name", "first_name", "last_name", "full_name", "experience"},
     textarea |-> {"skills", "experience", "cover_letter"},
     url |-> {"linkedin", "github", "website"},
     date |-> {"date"}, address |-> {"address"}, education |-> {"education"},
     name |-> {"full_name", "name", "first_name", "last_name"}]

\* faulty variant: no remap, the form's field type is the filter
MappedTypesNoRemap(field_type) == {field_type}

\* the stored field types a mapped form field type is searched under
MappedTypes(field_type) == field_type_mappings[field_type]

\* the field types one search tries; "none" stands for no field type
SearchAttempts(field_type) ==
    IF field_type \in DOMAIN field_type_mappings
    THEN MappedTypes(field_type)
    ELSE {field_type}

\* the filter of one attempt
AttemptFilter(user_id, attempt_type) ==
    IF attempt_type = "none"
    THEN [user_id |-> user_id, type |-> "field"]
    ELSE [user_id |-> user_id, type |-> "field", field_type |-> attempt_type]

\* all_results: what the attempts in A can return, put together
RECURSIVE AttemptResults(_, _, _, _, _)
AttemptResults(V, q, user_id, A, top_k) ==
    IF A = {} THEN {{}}
    ELSE LET a == CHOOSE x \in A : TRUE IN
         {r1 \cup r2 :
            r1 \in search_similar_with_filter(V, q, AttemptFilter(user_id, a), top_k),
            r2 \in AttemptResults(V, q, user_id, A \ {a}, top_k)}

\* unique_results: the top_k best scoring of the combined results
TopByScore(R, top_k) ==
    {T \in SUBSET R :
        /\ Cardinality(T) = Min(top_k, Cardinality(R))
        /\ \A t \in T, m \in R \ T : t.score >= m.score}

\* one formatted field result; vec stands for the metadata copied into it
\* (field_value, context, filename, doc_id); confidence is in 1/10000
FormatField(r) ==
    [field_type |-> r.vec.field_type, confidence |-> r.score * r.vec.confidence,
     similarity_score |-> r.score, extraction_confidence |-> r.vec.confidence,
     vec |-> r.vec]

search_field_matches(V, field_query, user_id, field_type, top_k) ==
    {{FormatField(r) : r \in T} :
        T \in UNION {TopByScore(R, top_k) :
                       R \in AttemptResults(V, Embed(field_query), user_id,
                                            SearchAttempts(field_type), top_k)}}

(***************************************************************************)
(* search_documents                                                        *)
(***************************************************************************)
personal_info_keywords ==
    {<<"email">>, <<"name">>, <<"phone">>, <<"address">>, <<"contact">>,
     <<"information">>, <<"who", "are", "you">>, <<"about", "me">>, <<"my">>,
     <<"tell", "me", "about">>, <<"skills">>, <<"programming">>, <<"languages">>,
     <<"experience">>, <<"work">>, <<"job">>, <<"education">>, <<"linkedin">>,
     <<"what", "do">>, <<"what", "are">>, <<"what", "is">>}

is_personal_query(query) == \E kw \in personal_info_keywords : Contains(query, kw)

\* field_type_hints, in the order the code tries them
field_type_hints ==
    << [field_type |-> "email", keywords |-> {"email", "e-mail", "mail"}],
       [field_type |-> "phone",
        keywords |-> {"phone", "number", "tel", "telephone", "mobile"}],
       [field_type |-> "full_name", keywords |-> {"name"}],
       [field_type |-> "address", keywords |-> {"address", "location"}],
       [field_type |-> "skills",
        keywords |-> {"skills", "programming", "languages", "tech"}],
       [field_type |-> "experience",
        keywords |-> {"experience", "work", "job", "years"}] >>

HintHits(query) ==
    {i \in 1..Len(field_type_hints) :
        \E kw \in field_type_hints[i].keywords : Contains(query, <<kw>>)}

\* the first hinted field type the query mentions, "none" without one
detected_field_type(query) ==
    IF HintHits(query) = {} THEN "none"
    ELSE field_type_hints[CHOOSE i \in HintHits(query) :
                             \A j \in HintHits(query) : i <= j].field_type

\* a result of search_documents: a chunk (score = similarity) or a field
\* (score = combined confidence); scores in 1/10000
ChunkResult(r) == [kind |-> "chunk", score |-> r.score * 100, sim |-> r.score, vec |-> r.vec]
\* faulty variant: a field result is scored by its similarity alone
FieldResultBySimilarity(f) ==
    [kind |-> "field", score |-> f.similarity_score * 100, sim |-> f.similarity_score,
     vec |-> f.vec]

FieldResult(f) == [kind |-> "field", score |-> f.confidence, sim |-> f.similarity_score,
                   vec |-> f.vec]

\* formatted_results as a list: the chunk results in the order of the
\* index's answer (by similarity), then the field results appended in the
\* order of search_field_matches (by similarity); equal similarities come
\* in the order the index likes
ResultLists(D) ==
    {l \in [1..Cardinality(D) -> D] :
        /\ \A i, j \in 1..Cardinality(D) : i # j => l[i] # l[j]
        /\ \A i, j \in 1..Cardinality(D) :
              i < j => \/ l[i].kind = "chunk" /\ l[j].kind = "field"
                       \/ l[i].kind = l[j].kind /\ l[i].sim >= l[j].sim}

search_documents(V, query, user_id, top_k) ==
    {{ChunkResult(r) : r \in {x \in R : x.vec.type # "field"}}
        \cup {FieldResult(f) : f \in F} :
       R \in search_similar(V, Embed(query), user_id, top_k),
       F \in IF is_personal_query(query)
             THEN search_field_matches(V, query, user_id, detected_field_type(query),
                                       FieldTopK)
             ELSE {{}}}

(***************************************************************************)
(* match_form_field                                                        *)
(***************************************************************************)
MatchThreshold == 30000   \* 0.3, in 1/100000
AiConfidence == 60000     \* 0.6, in 1/100000

\* the keyword lists of _calculate_label_similarity
label_mappings ==
    [email |-> {<<"email">>, <<"e-mail">>, <<"mail">>, <<"electronic", "mail">>},
     phone |-> {<<"phone">>, <<"tel">>, <<"telephone">>, <<"mobile">>, <<"cell">>},
     name |-> {<<"name">>, <<"full", "name">>, <<"fullname">>},
     address |-> {<<"address">>, <<"street">>, <<"location">>},
     linkedin |-> {<<"linkedin">>, <<"linked-in">>},
     website |-> {<<"website">>, <<"url">>, <<"site">>, <<"portfolio">>},
     github |-> {<<"github">>, <<"git">>},
     experience |-> {<<"experience">>, <<"work">>, <<"employment">>, <<"job">>},
     education |-> {<<"education">>, <<"school">>, <<"university">>, <<"degree">>},
     skills |-> {<<"skills">>, <<"abilities">>, <<"technologies">>}]

\* in percent: 100 when one of label and type occurs in the other, 80 when
\* the label holds a keyword listed for the type, else 0
calculate_label_similarity(field_label, field_type) ==
    IF \/ Contains(field_label, <<field_type>>)
       \/ Len(field_label) = 1 /\ field_label[1] \in WordKeywords(field_type)
    THEN 100
    ELSE IF /\ field_type \in DOMAIN label_mappings
            /\ \E kw \in label_mappings[field_type] : Contains(field_label, kw)
    THEN 80
    ELSE 0

\* combined_confidence = confidence * 0.7 + label_similarity * 0.3, in 1/100000
CombinedConfidence(match, field_label) ==
    7 * match.confidence + 3 * 100 * calculate_label_similarity(field_label, match.field_type)

\* the four search queries built from the form field
SearchQueries(field_label, field_type, field_context) ==
    {field_label, <<field_type>> \o field_label, field_label \o field_context,
     <<field_type>>}

\* the field matches the searches over the queries in Q can return, together
RECURSIVE FieldMatchesOver(_, _, _, _)
FieldMatchesOver(V, Q, user_id, field_type) ==
    IF Q = {} THEN {{}}
    ELSE LET q == CHOOSE x \in Q : TRUE IN
         {m1 \cup m2 :
            m1 \in search_field_matches(V, q, user_id, field_type, MatchTopK),
            m2 \in FieldMatchesOver(V, Q \ {q}, user_id, field_type)}

MaxOf(S) == IF S = {} THEN 0 ELSE CHOOSE x \in S : \A y \in S : y <= x

\* best_match; srcs are the vectors its value was taken from
NoMatch == [source |-> "none", confidence |-> 0, field_type |-> "none", srcs |-> {}]
FieldMatch(m, field_label) ==
    [source |-> "field", confidence |-> CombinedConfidence(m, field_label),
     field_type |-> m.field_type, srcs |-> {m.vec}]
AiMatch(E, field_type) ==
    [source |-> "ai", confidence |-> AiConfidence, field_type |-> field_type,
     srcs |-> {e.vec : e \in E}]

\* doc_results[:2]: chunk results come first, then field results, each in
\* the order of their similarity
FirstTwo(D) ==
    {E \in SUBSET D :
        /\ Cardinality(E) = Min(2, Cardinality(D))
        /\ \A e \in E, d \in D \ E :
              \/ e.kind = "chunk" /\ d.kind = "field"
              \/ e.kind = d.kind /\ e.sim >= d.sim}

\* faulty variant: any candidate with a confidence above 0 is kept
BestFieldAny(M, field_label) ==
    IF \A m \in M : CombinedConfidence(m, field_label) = 0 THEN {NoMatch}
    ELSE {FieldMatch(m, field_label) :
            m \in {x \in M : CombinedConfidence(x, field_label) > 0}}

\* the best field candidate: the first one with the highest combined
\* confidence above 0 (which of several equal ones comes first is the index's order)
BestField(M, field_label) ==
    LET top == MaxOf({CombinedConfidence(m, field_label) : m \in M}) IN
    IF top = 0 THEN {NoMatch}
    ELSE {FieldMatch(m, field_label) :
            m \in {x \in M : CombinedConfidence(x, field_label) = top}}

\* the fallback: without a field match of confidence 0.3, the value the
\* language model extracts (ai: it answers with a value) from the first two
\* results of a document search replaces a less confident best match
WithFallback(V, best, field_label, field_type, user_id, ai) ==
    IF best.source # "none" /\ best.confidence >= MatchThreshold THEN {best}
    ELSE UNION {IF D # {} /\ ai /\ AiConfidence > best.confidence
                THEN {AiMatch(E, field_type) : E \in FirstTwo(D)}
                ELSE {best} :
                D \in search_documents(V, field_label \o <<field_type>>, user_id, MatchTopK)}

MatchResult(best) ==
    [matched |-> best.source # "none", confidence |-> best.confidence, match |-> best]

\* the result of the except branch: matched False, confidence 0.0, match None
ErrorResult == [matched |-> FALSE, confidence |-> 0, match |-> NoMatch]

\* faulty variant: the except branch reports the best match found so far
ErrorKeepsBest(best) == MatchResult(best)

\* the result when the fallback's document search raises
OnSearchError(best) == ErrorResult

\* the step of a call that raises: the embedding of a query ("embed"), a
\* query of the vector store ("query"), the document search of the fallback
\* of match_form_field ("doc_search"), the language model ("ai"), or none
Faults == {"none", "embed", "query", "doc_search", "ai"}

\* fault: the step that raises.  An exception of a field search or of the
\* fallback's document search is caught by the outer except; one of the
\* language model is caught in _ai_extract_field_value, which returns None.
match_form_field(V, field_label, field_type, field_context, user_id, ai, fault) ==
    IF fault \in {"embed", "query"} THEN {ErrorResult}
    ELSE UNION {IF fault = "doc_search"
                   /\ ~(best.source # "none" /\ best.confidence >= MatchThreshold)
                THEN {OnSearchError(best)}
                ELSE {MatchResult(b) :
                        b \in WithFallback(V, best, field_label, field_type, user_id,
                                           ai /\ fault # "ai")} :
                best \in UNION {BestField(M, field_label) :
                          M \in FieldMatchesOver(V,
                                   SearchQueries(field_label, field_type, field_context),
                                   user_id, field_type)}}

(***************************************************************************)
(* Retrieval calls                                                         *)
(***************************************************************************)
Queries == {<<"invoice", "total">>, <<"what", "is", "my", "email">>, <<"my", "contact">>}
FieldQueries == {<<"phone">>}
FormTypes == {"none", "tel", "email"}
Labels == {<<"phone">>, <<"mobile">>}
MatchTypes == {"tel", "email"}
NoContext == << >>

storeVars == <<index, docs, files, nextId, nWrites, tasks, del, req, cfg, piped, libVars>>

NoOut == [op |-> "none", user_id |-> "u1", query |-> << >>, field_type |-> "none",
          ai |-> FALSE, fault |-> "none", raised |-> FALSE, ret |-> {}]

\* what the adapter operations do for a state of the adapter: "ok" (the
\* index is used), "neutral" (False or [] is returned) or "raised"
upsert_embeddings_outcome(pinecone) ==
    IF pinecone = "none" THEN "neutral"
    ELSE IF pinecone = "no_index" THEN "raised" ELSE "ok"
search_similar_outcome(pinecone) == IF pinecone = "ready" THEN "ok" ELSE "raised"

\* the faults a call can meet under configuration c, among those in F:
\* without an OpenAI key embed_query raises (self.embeddings is None), and
\* without an index every query of the vector store raises
CallFaults(c, F) ==
    IF ~c.openai_key THEN {"embed"}
    ELSE IF search_similar_outcome(c.pinecone) = "raised" THEN {"embed", "query"}
    ELSE F

\* a vector is written to the index
UpsertVec ==
    /\ out.op = "none"
    /\ upsert_embeddings_outcome(cfg.pinecone) = "ok"
    /\ Cardinality(vecs) < MaxVecs
    /\ \E v \in VecUniverse \ vecs : vecs' = vecs \cup {v}
    /\ out' = NoOut
    /\ UNCHANGED storeVars

\* the adapter's search_similar, called with the embedding of a query
SearchSimilar ==
    /\ out.op = "none"
    /\ \E user_id \in Users, query \in Queries :
         LET o == [op |-> "search_similar", user_id |-> user_id, query |-> query,
                   field_type |-> "none", ai |-> FALSE, fault |-> "none",
                   raised |-> FALSE, ret |-> {}] IN
         IF search_similar_outcome(cfg.pinecone) = "raised"
         THEN out' = [o EXCEPT !.fault = "query", !.raised = TRUE]
         ELSE \E r \in search_similar(vecs, Embed(query), user_id, TOP_K) :
                 out' = [o EXCEPT !.ret = r]
    /\ UNCHANGED <<vecs, storeVars>>

\* search_documents and search_field_matches log an exception and raise it again
SearchDocuments ==
    /\ out.op = "none"
    /\ \E user_id \in Users, query \in Queries,
          fault \in CallFaults(cfg, {"none", "embed", "query"}) :
         LET o == [op |-> "search_documents", user_id |-> user_id, query |-> query,
                   field_type |-> "none", ai |-> FALSE, fault |-> fault,
                   raised |-> fault # "none", ret |-> {}] IN
         IF fault # "none" THEN out' = o
         ELSE \E r \in search_documents(vecs, query, user_id, TOP_K) :
                 out' = [o EXCEPT !.ret = r]
    /\ UNCHANGED <<vecs, storeVars>>

SearchFieldMatches ==
    /\ out.op = "none"
    /\ \E user_id \in Users, query \in FieldQueries, field_type \in FormTypes,
          fault \in CallFaults(cfg, {"none", "embed", "query"}) :
         LET o == [op |-> "search_field_matches", user_id |-> user_id, query |-> query,
                   field_type |-> field_type, ai |-> FALSE, fault |-> fault,
                   raised |-> fault # "none", ret |-> {}] IN
         IF fault # "none" THEN out' = o
         ELSE \E r \in search_field_matches(vecs, query, user_id, field_type, FieldTopK) :
                 out' = [o EXCEPT !.ret = r]
    /\ UNCHANGED <<vecs, storeVars>>

\* match_form_field returns a result whatever raises inside it
MatchFormField ==
    /\ out.op = "none"
    /\ \E user_id \in Users, label \in Labels, field_type \in MatchTypes, ai \in BOOLEAN,
          fault \in CallFaults(cfg, Faults) :
         \E r \in match_form_field(vecs, label, field_type, NoContext, user_id, ai, fault) :
            out' = [op |-> "match_form_field", user_id |-> user_id, query |-> label,
                    field_type |-> field_type, ai |-> ai, fault |-> fault,
                    raised |-> FALSE, ret |-> r]
    /\ UNCHANGED <<vecs, storeVars>>

\* the caller takes the answer
Return ==
    /\ out.op # "none"
    /\ out' = NoOut
    /\ UNCHANGED <<vecs, storeVars>>

(***************************************************************************)
(* Transaction parser (services/transaction_parser.py)                     *)
(*                                                                         *)
(* A text is the sequence of its characters, None is the empty text, an    *)
(* amount is a number of hundredths and a confidence a number of tenths.   *)
(***************************************************************************)
None == << >>

Digits == <<"0", "1", "2", "3", "4", "5", "6", "7", "8", "9">>
IsDigit(c) == \E i \in 1..10 : Digits[i] = c
DigitVal(c) == (CHOOSE i \in 1..10 : Digits[i] = c) - 1

UpperCase == <<"A", "B", "C", "D", "E", "F", "G", "H", "I", "J", "K", "L", "M",
               "N", "O", "P", "Q", "R", "S", "T", "U", "V", "W", "X", "Y", "Z">>
LowerCase == <<"a", "b", "c", "d", "e", "f", "g", "h", "i", "j", "k", "l", "m",
               "n", "o", "p", "q", "r", "s", "t", "u", "v", "w", "x", "y", "z">>

\* str.lower()
LowerChar(c) ==
    IF \E i \in 1..26 : UpperCase[i] = c
    THEN LowerCase[CHOOSE i \in 1..26 : UpperCase[i] = c]
    ELSE c
Lower(s) == [i \in 1..Len(s) |-> LowerChar(s[i])]

\* t in s
HasSub(s, t) ==
    \E i \in 1..Len(s) : i + Len(t) - 1 <= Len(s) /\ SubSeq(s, i, i + Len(t) - 1) = t

\* the character at position i, "" past the end
At(s, i) == IF i >= 1 /\ i <= Len(s) THEN s[i] ELSE ""

\* the number of digits that follow each other from position i on
RECURSIVE DigitRun(_, _)
DigitRun(s, i) == IF IsDigit(At(s, i)) THEN 1 + DigitRun(s, i + 1) ELSE 0

\* int() of a text of digits
RECURSIVE NumVal(_)
NumVal(s) ==
    IF s = << >> THEN 0
    ELSE 10 * NumVal(SubSeq(s, 1, Len(s) - 1)) + DigitVal(s[Len(s)])

\* the decimal digits of n, and the same zero-padded to width w
RECURSIVE Decimal(_)
Decimal(n) == IF n < 10 THEN <<Digits[n + 1]>> ELSE Decimal(n \div 10) \o <<Digits[(n % 10) + 1]>>
RECURSIVE Pad(_, _)
Pad(s, w) == IF Len(s) >= w THEN s ELSE Pad(<<"0">> \o s, w)

\* date_patterns, in the order tried: the separator, and whether the
\* four-digit year comes first
date_patterns ==
    << [sep |-> {"/"}, year_first |-> FALSE],      \* (\d{1,2}/\d{1,2}/\d{2,4})
       [sep |-> {"-"}, year_first |-> FALSE],      \* (\d{1,2}-\d{1,2}-\d{2,4})
       [sep |-> {"-"}, year_first |-> TRUE] >>     \* (\d{4}-\d{1,2}-\d{1,2})

\* the date part of the line pattern: \d{1,2}[/-]\d{1,2}[/-]\d{2,4}
line_date_pattern == [sep |-> {"/", "-"}, year_first |-> FALSE]

NoMatchAt == [found |-> FALSE, p1 |-> << >>, p2 |-> << >>, p3 |-> << >>, sep |-> "", to |-> 0]

\* the match of a date pattern that starts at position i (greedy), with the
\* three numbers it is made of
DateMatchAt(s, i, p) ==
    LET a == DigitRun(s, i)
        wa == IF p.year_first THEN {4} ELSE {1, 2}
        b == DigitRun(s, i + a + 1)
        c == DigitRun(s, i + a + b + 2)
        n == IF p.year_first THEN Min(2, c) ELSE Min(4, c)
    IN  IF /\ a \in wa /\ At(s, i + a) \in p.sep
           /\ b \in {1, 2} /\ At(s, i + a + 1 + b) \in p.sep
           /\ c >= (IF p.year_first THEN 1 ELSE 2)
        THEN [found |-> TRUE,
              p1 |-> SubSeq(s, i, i + a - 1),
              p2 |-> SubSeq(s, i + a + 1, i + a + b),
              p3 |-> SubSeq(s, i + a + b + 2, i + a + b + 1 + n),
              sep |-> At(s, i + a),
              to |-> i + a + b + 1 + n]
        ELSE NoMatchAt

\* re.search: the leftmost match
DateSearch(s, p) ==
    LET I == {i \in 1..Len(s) : DateMatchAt(s, i, p).found} IN
    IF I = {} THEN NoMatchAt
    ELSE DateMatchAt(s, CHOOSE i \in I : \A j \in I : i <= j, p)

IsLeap(y) == (y % 4 = 0 /\ y % 100 # 0) \/ y % 400 = 0
DaysIn(y, m) ==
    IF m = 2 THEN (IF IsLeap(y) THEN 29 ELSE 28)
    ELSE IF m \in {4, 6, 9, 11} THEN 30 ELSE 31

NoDate == [ok |-> FALSE, y |-> 0, m |-> 0, d |-> 0]

\* datetime.strptime on the three numbers: %m and %d take one or two
\* digits, %y two (00-68 are 2000-2068, 69-99 are 1969-1999), %Y four;
\* ok is false where it raises ValueError
Strptime(ytext, mtext, dtext, two_digit_year) ==
    LET y == IF two_digit_year
             THEN (IF NumVal(ytext) <= 68 THEN 2000 ELSE 1900) + NumVal(ytext)
             ELSE NumVal(ytext)
        m == NumVal(mtext)
        d == NumVal(dtext)
    IN  IF /\ Len(ytext) = (IF two_digit_year THEN 2 ELSE 4)
           /\ y >= 1
           /\ Len(mtext) \in {1, 2} /\ m \in 1..12
           /\ Len(dtext) \in {1, 2} /\ d >= 1 /\ d <= DaysIn(y, m)
        THEN [ok |-> TRUE, y |-> y, m |-> m, d |-> d]
        ELSE NoDate

\* the format chosen for a matched date text: with a two-digit last number
\* month, day, two-digit year; else with '/' month, day, year and with '-'
\* year, month, day
ParseDate(mt) ==
    IF Len(mt.p3) = 2 THEN Strptime(mt.p3, mt.p1, mt.p2, TRUE)
    ELSE IF mt.sep = "/" THEN Strptime(mt.p3, mt.p1, mt.p2, FALSE)
    ELSE Strptime(mt.p1, mt.p2, mt.p3, FALSE)

\* strftime('%Y-%m-%d')
Strftime(y, m, d) ==
    (IF y >= 1000 THEN Pad(Decimal(y), 4) ELSE Decimal(y))
        \o <<"-">> \o Pad(Decimal(m), 2) \o <<"-">> \o Pad(Decimal(d), 2)

\* the first pattern, from the k-th on, whose leftmost match parses; a
\* pattern whose match does not parse is given up (continue)
RECURSIVE ExtractDateFrom(_, _)
ExtractDateFrom(line, k) ==
    IF k > Len(date_patterns) THEN None
    ELSE LET mt == DateSearch(line, date_patterns[k])
             dt == ParseDate(mt)
         IN  IF mt.found /\ dt.ok THEN Strftime(dt.y, dt.m, dt.d)
             ELSE ExtractDateFrom(line, k + 1)

extract_date(line) == ExtractDateFrom(line, 1)

\* amount_patterns: whether a '$' may follow the sign
amount_patterns == <<TRUE, FALSE>>     \* [+-]?\$?[\d,]+\.?\d*  and  [+-]?[\d,]+\.?\d*

\* the number of digits and commas that follow each other from position i on
RECURSIVE NumberRun(_, _)
NumberRun(s, i) ==
    IF IsDigit(At(s, i)) \/ At(s, i) = "," THEN 1 + NumberRun(s, i + 1) ELSE 0

\* the match of an amount pattern that starts at position i: to = 0 without one
AmountMatchAt(s, i, dollar) ==
    LET sg == IF At(s, i) \in {"+", "-"} THEN 1 ELSE 0
        dl == IF dollar /\ At(s, i + sg) = "$" THEN 1 ELSE 0
        r == NumberRun(s, i + sg + dl)
        j == i + sg + dl + r
        dot == IF At(s, j) = "." THEN 1 ELSE 0
        f == DigitRun(s, j + dot)
    IN  IF r = 0 THEN [to |-> 0, neg |-> FALSE, int |-> << >>, frac |-> << >>]
        ELSE [to |-> j + dot + f - 1,
              neg |-> sg = 1 /\ At(s, i) = "-",
              int |-> SelectSeq(SubSeq(s, i + sg + dl, j - 1), IsDigit),
              frac |-> SubSeq(s, j + dot, j + dot + f - 1)]

\* re.findall: the matches from position i on, left to right, not overlapping
RECURSIVE FindAmounts(_, _, _)
FindAmounts(s, i, dollar) ==
    IF i > Len(s) THEN << >>
    ELSE LET mt == AmountMatchAt(s, i, dollar) IN
         IF mt.to = 0 THEN FindAmounts(s, i + 1, dollar)
         ELSE <<mt>> \o FindAmounts(s, mt.to + 1, dollar)

NoAmount == [some |-> FALSE, cents |-> 0]

\* float() of a match without '$' and ',', in hundredths (digits after the
\* second decimal are dropped); it raises ValueError without any digit
AmountOf(mt) ==
    IF mt.int = << >> /\ mt.frac = << >> THEN NoAmount
    ELSE LET h == IF Len(mt.frac) = 0 THEN 0
                  ELSE IF Len(mt.frac) = 1 THEN 10 * NumVal(mt.frac)
                  ELSE NumVal(SubSeq(mt.frac, 1, 2))
             v == 100 * NumVal(mt.int) + h
         IN  [some |-> TRUE, cents |-> IF mt.neg THEN -v ELSE v]

MaxAmount == 100000000     \* 1000000, in hundredths

\* the first match, from the n-th of M on, that is a number within the range
RECURSIVE FirstAmount(_, _)
FirstAmount(M, n) ==
    IF n > Len(M) THEN NoAmount
    ELSE LET a == AmountOf(M[n]) IN
         IF a.some /\ -MaxAmount <= a.cents /\ a.cents <= MaxAmount THEN a
         ELSE FirstAmount(M, n + 1)

RECURSIVE ExtractAmountFrom(_, _)
ExtractAmountFrom(line, k) ==
    IF k > Len(amount_patterns) THEN NoAmount
    ELSE LET a == FirstAmount(FindAmounts(line, 1, amount_patterns[k]), 1) IN
         IF a.some THEN a ELSE ExtractAmountFrom(line, k + 1)

extract_amount(line) == ExtractAmountFrom(line, 1)

transaction_indicators ==
    {<<"d", "e", "s", ":">>, <<"i", "d", ":">>, <<"i", "n", "d", "n", ":">>,
     <<"c", "o", " ", "i", "d", ":">>, <<"w", "e", "b">>, <<"p", "o", "s">>,
     <<"a", "t", "m">>, <<"c", "h", "e", "c", "k">>,
     <<"d", "e", "p", "o", "s", "i", "t">>,
     <<"w", "i", "t", "h", "d", "r", "a", "w", "a", "l">>,
     <<"t", "r", "a", "n", "s", "f", "e", "r">>, <<"p", "a", "y", "m", "e", "n", "t">>,
     <<"c", "h", "a", "r", "g", "e">>, <<"f", "e", "e">>,
     <<"r", "e", "b", "i", "l", "l">>, <<"a", "u", "t", "o", "p", "a", "y">>}

\* _calculate_confidence, in tenths: 'if amount' is false for None and for 0
calculate_confidence(line, date, amount, description) ==
    Min(10, (IF date # None THEN 3 ELSE 0)
            + (IF amount.some /\ amount.cents # 0 THEN 3 ELSE 0)
            + (IF description # << >> THEN 2 ELSE 0)
            + (IF date # None /\ amount.some /\ amount.cents # 0 /\ description # << >>
               THEN 2 ELSE 0)
            + (IF \E t \in transaction_indicators : HasSub(Lower(line), t) THEN 1 ELSE 0))

\* the first position from i on that holds no blank
RECURSIVE SkipBlanks(_, _)
SkipBlanks(s, i) == IF At(s, i) = " " THEN SkipBlanks(s, i + 1) ELSE i

\* group 'desc' of the line pattern, matched from the start of the line:
\* after the optional date and blanks, the lazy (.+?) takes one character,
\* since all that follows it in the pattern can match the rest of any line
desc_group(line) ==
    LET mt == DateMatchAt(line, 1, line_date_pattern)
        k == SkipBlanks(line, IF mt.found THEN mt.to + 1 ELSE 1)
    IN  IF k <= Len(line) THEN <<line[k]>> ELSE << >>

\* str.strip()
RECURSIVE Strip(_)
Strip(s) ==
    IF s # << >> /\ s[1] = " " THEN Strip(Tail(s))
    ELSE IF s # << >> /\ s[Len(s)] = " " THEN Strip(SubSeq(s, 1, Len(s) - 1))
    ELSE s

\* _parse_transaction_line: the transactions (none or one) of a line
parse_transaction_line(line) ==
    LET date == extract_date(line)
        amount == extract_amount(line)
        desc == Strip(desc_group(line))
    IN  IF date # None /\ desc # << >> /\ amount.some
        THEN << [date |-> date, description |-> desc, amount |-> amount.cents,
                 confidence |-> calculate_confidence(line, date, amount, desc)] >>
        ELSE << >>

\* parse_transactions over the lines of a text
RECURSIVE parse_transactions(_)
parse_transactions(lines) ==
    IF lines = << >> THEN << >>
    ELSE (IF Strip(Head(lines)) = << >> THEN << >>
          ELSE parse_transaction_line(Strip(Head(lines))))
            \o parse_transactions(Tail(lines))

(***************************************************************************)
(* Calls of the transaction parser                                         *)
(***************************************************************************)
\* the lines parsed: a calendar date written in one of four forms, a
\* description and an amount with two decimals, the date first or last
DateForms == {"MM/DD/YY", "MM/DD/YYYY", "MM-DD-YY", "YYYY-MM-DD"}
Dates == {[y |-> 2023, m |-> 3, d |-> 1], [y |-> 2012, m |-> 11, d |-> 10],
          [y |-> 1999, m |-> 12, d |-> 31], [y |-> 2024, m |-> 2, d |-> 29]}
Descriptions ==
    {<<"C", "O", "F", "F", "E", "E", " ", "S", "H", "O", "P", " ",
       "P", "U", "R", "C", "H", "A", "S", "E">>,
     <<"X">>,
     <<"R", "E", "F", "U", "N", "D", " ", "7">>}
Amounts == {-450, 0, 500, 123456}
Layouts == {"date_first", "date_last"}

WriteDate(form, dt) ==
    LET yyyy == Pad(Decimal(dt.y), 4)
        yy == Pad(Decimal(dt.y % 100), 2)
        mm == Pad(Decimal(dt.m), 2)
        dd == Pad(Decimal(dt.d), 2)
    IN  IF form = "MM/DD/YY" THEN mm \o <<"/">> \o dd \o <<"/">> \o yy
        ELSE IF form = "MM/DD/YYYY" THEN mm \o <<"/">> \o dd \o <<"/">> \o yyyy
        ELSE IF form = "MM-DD-YY" THEN mm \o <<"-">> \o dd \o <<"-">> \o yy
        ELSE yyyy \o <<"-">> \o mm \o <<"-">> \o dd

WriteAmount(cents) ==
    LET v == IF cents < 0 THEN -cents ELSE cents IN
    (IF cents < 0 THEN <<"-">> ELSE << >>)
        \o Decimal(v \div 100) \o <<".">> \o Pad(Decimal(v % 100), 2)

Inputs == [layout : Layouts, form : DateForms, date : Dates,
           description : Descriptions, amount : Amounts]

WriteLine(in) ==
    IF in.layout = "date_first"
    THEN WriteDate(in.form, in.date) \o <<" ">> \o in.description
            \o <<" ">> \o WriteAmount(in.amount)
    ELSE in.description \o <<" ">> \o WriteAmount(in.amount)
            \o <<" ">> \o WriteDate(in.form, in.date)

NoParse == [pc |-> "none",
            in |-> [layout |-> "date_first", form |-> "MM/DD/YY",
                    date |-> [y |-> 2023, m |-> 3, d |-> 1],
                    description |-> <<"X">>, amount |-> 0],
            txns |-> << >>, date |-> None, again |-> None]

\* parse_transactions is called on a text of one line
ParseTransactions ==
    /\ parse.pc = "input"
    /\ parse' = [parse EXCEPT !.pc = "parsed",
                              !.txns = parse_transactions(<<WriteLine(parse.in)>>)]
    /\ UNCHANGED <<appVars, extract, batch>>

\* _extract_date is called on the written date
ExtractDate ==
    /\ parse.pc = "input"
    /\ parse' = [parse EXCEPT !.pc = "dated",
                              !.date = extract_date(WriteDate(parse.in.form, parse.in.date))]
    /\ UNCHANGED <<appVars, extract, batch>>

\* _extract_date is called on the date it returned
ExtractDateAgain ==
    /\ parse.pc = "dated"
    /\ parse.date # None
    /\ parse' = [parse EXCEPT !.pc = "redated", !.again = extract_date(parse.date)]
    /\ UNCHANGED <<appVars, extract, batch>>

(***************************************************************************)
(* Structured field extraction (services/document_processor.py)            *)
(*                                                                         *)
(* Confidences are in thousandths.  What the patterns of a field type find *)
(* in a text is the list of its matches, each a value and its context.     *)
(***************************************************************************)
IsAlphaChar(c) == \E i \in 1..26 : UpperCase[i] = c \/ LowerCase[i] = c

\* len(value.split())
WordCount(s) == Cardinality({i \in 1..Len(s) : s[i] # " " /\ (i = 1 \/ s[i - 1] = " ")})

\* value.replace(' ', '').isalpha()
IsAlphaWords(s) ==
    /\ \E i \in 1..Len(s) : s[i] # " "
    /\ \A i \in 1..Len(s) : s[i] = " " \/ IsAlphaChar(s[i])

\* len(re.sub(r'[^\d]', '', value))
DigitCount(s) == Cardinality({i \in 1..Len(s) : IsDigit(s[i])})

StartsWith(s, t) == Len(t) <= Len(s) /\ SubSeq(s, 1, Len(t)) = t

\* '@' in value and '.' in value.split('@')[-1]
LooksLikeEmail(s) ==
    \E i \in 1..Len(s) :
        /\ s[i] = "@"
        /\ \A j \in (i + 1)..Len(s) : s[j] # "@"
        /\ \E j \in (i + 1)..Len(s) : s[j] = "."

non_name_phrases == {<<"f", "u", "l", "l", " ", "s", "t", "a", "c", "k">>, <<"d", "e",
    "v", "e", "l", "o", "p", "e", "r">>, <<"e", "n", "g", "i", "n", "e", "e", "r">>,
    <<"m", "a", "n", "a", "g", "e", "r">>, <<"d", "i", "r", "e", "c", "t", "o", "r">>}

\* the text of a field type's name
TypeText(field_type) ==
    IF field_type = "email" THEN <<"e", "m", "a", "i", "l">>
    ELSE IF field_type = "phone" THEN <<"p", "h", "o", "n", "e">>
    ELSE IF field_type = "name" THEN <<"n", "a", "m", "e">>
    ELSE <<"s", "k", "i", "l", "l", "s">>

\* the field-specific validation of _calculate_field_confidence
TypeScore(field_type, value, context) ==
    IF field_type = "email"
    THEN (IF LooksLikeEmail(value) THEN 900 ELSE 500)
    ELSE IF field_type = "phone"
    THEN (IF DigitCount(value) \in 10..11 THEN 800 ELSE 500)
    ELSE IF field_type \in {"name", "full_name"}
    THEN (IF WordCount(value) >= 2 /\ IsAlphaWords(value)
          THEN (IF \E p \in non_name_phrases : HasSub(Lower(value), p) THEN 200
                ELSE IF \/ StartsWith(context, value)
                        \/ HasSub(SubSeq(context, 1, Min(200, Len(context))), value)
                THEN 950
                ELSE 800)
          ELSE IF WordCount(value) = 1 /\ IsAlphaWords(value) /\ Len(value) > 2
          THEN 600
          ELSE 500)
    ELSE 500

\* the context boost and the penalty for a value of fewer than 3 characters
Adjusted(field_type, value, context) ==
    LET boosted == TypeScore(field_type, value, context)
                     + (IF HasSub(Lower(context), TypeText(field_type)) THEN 100 ELSE 0)
    IN  IF Len(value) < 3 THEN boosted \div 2 ELSE boosted

\* faulty variant: the confidence is returned as adjusted
calculate_field_confidence_unclamped(field_type, value, context) ==
    Adjusted(field_type, value, context)

\* _calculate_field_confidence: min(1.0, confidence)
calculate_field_confidence(field_type, value, context) ==
    Min(1000, Adjusted(field_type, value, context))

\* faulty variant: duplicates are told by the value as written
SeenKeyExact(value) == value

\* the key duplicates are told by: match['value'].lower()
SeenKey(value) == Lower(value)

\* unique_matches: the first match of every key, in the order found
RECURSIVE UniqueMatches(_, _)
UniqueMatches(M, seen) ==
    IF M = << >> THEN << >>
    ELSE IF SeenKey(Head(M).value) \in seen THEN UniqueMatches(Tail(M), seen)
    ELSE <<Head(M)>> \o UniqueMatches(Tail(M), seen \cup {SeenKey(Head(M).value)})

\* list.sort(key=confidence, reverse=True): stable, so x goes behind every
\* entry whose confidence is not lower
RECURSIVE InsertByConfidence(_, _)
InsertByConfidence(x, S) ==
    IF S = << >> THEN <<x>>
    ELSE IF Head(S).confidence >= x.confidence
    THEN <<Head(S)>> \o InsertByConfidence(x, Tail(S))
    ELSE <<x>> \o S

RECURSIVE SortByConfidence(_)
SortByConfidence(M) ==
    IF M = << >> THEN << >>
    ELSE InsertByConfidence(M[Len(M)], SortByConfidence(SubSeq(M, 1, Len(M) - 1)))

KeepTop == 3      \* unique_matches[:3]

\* extracted_fields[field_type] for the matches found, values of one
\* character left out
extract_structured_fields_regex(field_type, found) ==
    LET kept == SelectSeq(found, LAMBDA f : Len(f.value) > 1)
        scored == [i \in 1..Len(kept) |->
                     [value |-> kept[i].value, context |-> kept[i].context,
                      confidence |-> calculate_field_confidence(field_type, kept[i].value,
                                                                kept[i].context)]]
        sorted == SortByConfidence(UniqueMatches(scored, {}))
    IN  SubSeq(sorted, 1, Min(KeepTop, Len(sorted)))

(***************************************************************************)
(* Calls of the field extractor                                            *)
(***************************************************************************)
MaxMatches == 4     \* matches the patterns of one field type find in a text

ExtractTypes == {"email", "phone", "name", "skills"}

\* what the patterns of a field type can find: a value and its context
Found(field_type) ==
    IF field_type = "email"
    THEN {[value |-> <<"a", "@", "b", ".", "c", "o">>, context |-> <<"e", "m", "a", "i",
        "l", ":", " ", "a", "@", "b", ".", "c", "o">>],
          [value |-> <<"A", "@", "B", ".", "C", "O">>, context |-> <<"c", "o", "n", "t",
              "a", "c", "t", " ", "A", "@", "B", ".", "C", "O">>],
          [value |-> <<"c", "@", "d", ".", "i", "o">>, context |-> <<"c", "@", "d", ".",
              "i", "o">>]}
    ELSE IF field_type = "phone"
    THEN {[value |-> <<"(", "5", "5", "5", ")", " ", "1", "2", "3", "-", "4", "5", "6",
        "7">>, context |-> <<"p", "h", "o", "n", "e", ":", " ", "5", "5", "5", "-", "1",
        "2", "3", "-", "4", "5", "6", "7">>],
          [value |-> <<"(", "5", "5", "5", ")", " ", "1", "2", "3", "-", "4", "5", "6",
              "7">>, context |-> <<"c", "a", "l", "l", " ", "5", "5", "5", ".", "1", "2",
              "3", ".", "4", "5", "6", "7">>],
          [value |-> <<"-", "-", "-", "-", "-", "-", "-", "-", "-", "-">>,
              context |-> <<"t", "e", "l", ":", "-", "-", "-", "-", "-", "-", "-", "-",
              "-", "-">>]}
    ELSE IF field_type = "name"
    THEN {[value |-> <<"J", "o", "h", "n", " ", "S", "m", "i", "t", "h">>,
        context |-> <<"n", "a", "m", "e", ":", " ", "J", "o", "h", "n", " ", "S", "m",
        "i", "t", "h">>],
          [value |-> <<"J", "O", "H", "N", " ", "S", "M", "I", "T", "H">>,
              context |-> <<"J", "O", "H", "N", " ", "S", "M", "I", "T", "H", " ", "E",
              "N", "G", "I", "N", "E", "E", "R">>],
          [value |-> <<"F", "u", "l", "l", " ", "S", "t", "a", "c", "k">>,
              context |-> <<"F", "u", "l", "l", " ", "S", "t", "a", "c", "k", " ", "d",
              "e", "v">>],
          [value |-> <<"A", "l">>, context |-> <<"n", "a", "m", "e", ":", " ", "A",
              "l">>],
          [value |-> <<"B", "o", "b">>, context |-> <<"b", "y", " ", "B", "o", "b">>]}
    ELSE {[value |-> <<"p", "y", "t", "h", "o", "n", ",", " ", "s", "q", "l">>,
        context |-> <<"s", "k", "i", "l", "l", "s", ":", " ", "p", "y", "t", "h", "o",
        "n", ",", " ", "s", "q", "l">>],
          [value |-> <<"P", "y", "t", "h", "o", "n", ",", " ", "S", "Q", "L">>,
              context |-> <<"P", "y", "t", "h", "o", "n", ",", " ", "S", "Q", "L">>],
          [value |-> <<"g", "o">>, context |-> <<"t", "e", "c", "h", "n", "o", "l", "o",
              "g", "i", "e", "s", ":", " ", "g", "o">>]}

\* the lists of at most n matches over S
RECURSIVE ListsUpTo(_, _)
ListsUpTo(S, n) ==
    IF n = 0 THEN {<< >>}
    ELSE LET L == ListsUpTo(S, n - 1) IN
         L \cup {Append(l, x) : l \in {y \in L : Len(y) = n - 1}, x \in S}

NoExtract == [pc |-> "none", field_type |-> "email", found |-> << >>, ret |-> << >>]

\* the extractor is run for one field type over what its patterns found
ExtractFields ==
    /\ extract.pc = "input"
    /\ extract' = [extract EXCEPT
                     !.pc = "done",
                     !.ret = extract_structured_fields_regex(extract.field_type,
                                                             extract.found)]
    /\ UNCHANGED <<appVars, parse, batch>>

(***************************************************************************)
(* Requests of the vector store adapter (database/pinecone_client.py)      *)
(***************************************************************************)
batch_size == 100     \* vectors or ids per request

\* the ids of n vectors, in the order of the list
Ids(n) == [i \in 1..n |-> i]

\* faulty variant: a slice also takes the first entry of the next one
BatchSliceOverlap(v, i) == SubSeq(v, i + 1, Min(Len(v), i + batch_size + 1))

\* v[i:i + batch_size]
BatchSlice(v, i) == SubSeq(v, i + 1, Min(Len(v), i + batch_size))

\* range(0, len(v), batch_size)
BatchStarts(v) ==
    [k \in 1..((Len(v) + batch_size - 1) \div batch_size) |-> (k - 1) * batch_size]

\* the requests of a loop over the slices of v
Batched(v) == [k \in 1..Len(BatchStarts(v)) |-> BatchSlice(v, BatchStarts(v)[k])]

\* upsert_embeddings: without a client nothing is sent and False returned;
\* otherwise one index.upsert per slice, and an exception of a request
\* (the fail_at-th; without an index the first) ends the loop and is raised
upsert_embeddings(vectors, pinecone, fail_at) ==
    IF pinecone = "none" THEN [requests |-> << >>, ret |-> "False"]
    ELSE LET all == Batched(vectors)
             first_failing == IF pinecone = "no_index" THEN 1 ELSE fail_at IN
         IF first_failing \in 1..Len(all)
         THEN [requests |-> SubSeq(all, 1, first_failing - 1), ret |-> "raised"]
         ELSE [requests |-> all, ret |-> "True"]

\* delete_document_vectors: the ids the query matched are deleted slice by
\* slice, then the document is queried again; without an index the query
\* raises
delete_document_vectors(matched, pinecone, verified) ==
    IF pinecone # "ready" THEN [requests |-> << >>, ret |-> "raised"]
    ELSE [requests |-> Batched(matched),
          ret |-> IF matched = << >> \/ verified THEN "True" ELSE "False"]

\* the request of one strategy of the comprehensive deletion:
\* self.index.delete(ids=...) with every id its query matched
StrategyRequests(matched) == IF matched = << >> THEN << >> ELSE <<matched>>

\* delete_document_vectors_comprehensive: the three strategies in turn, then
\* the verification query; without an index every strategy's query raises
\* and is logged, and the verification's exception gives False
delete_document_vectors_comprehensive(by_doc, by_user_file, by_file, pinecone, verified) ==
    IF pinecone # "ready" THEN [requests |-> << >>, ret |-> "False"]
    ELSE [requests |-> StrategyRequests(by_doc) \o StrategyRequests(by_user_file)
                          \o StrategyRequests(by_file),
          ret |-> IF verified THEN "True" ELSE "False"]

(***************************************************************************)
(* process_document_pipeline, request by request (services/rag_service.py) *)
(***************************************************************************)
\* faulty variant: a failed metadata write ends the pipeline
AfterMetadataStrict(failed) == IF failed THEN "raised" ELSE "True"

\* what the pipeline returns after the chunk metadata loop: its exception
\* is logged as a warning
AfterMetadata(failed) == "True"

Repeat(x, n) == [i \in 1..n |-> x]

\* the pipeline for all_vectors and nchunks chunks: the upsert when there
\* is a vector, then one create_vector_chunk per chunk when the metadata
\* store is configured (the meta_fail_at-th raises).  log: the calls in
\* order; rows: the chunk rows written
process_document_pipeline(all_vectors, nchunks, pinecone, fail_at, supabase, meta_fail_at) ==
    LET up == IF all_vectors # << >>
              THEN upsert_embeddings(all_vectors, pinecone, fail_at)
              ELSE [requests |-> << >>, ret |-> "True"]
        failed == supabase /\ meta_fail_at \in 1..nchunks
        calls == IF ~supabase THEN 0 ELSE IF failed THEN meta_fail_at ELSE nchunks
        upserts == Repeat("upsert", Len(up.requests) + (IF up.ret = "raised" THEN 1 ELSE 0))
    IN  IF up.ret = "raised"
        THEN [requests |-> up.requests, rows |-> 0, log |-> upserts, ret |-> "raised"]
        ELSE [requests |-> up.requests,
              rows |-> IF failed THEN calls - 1 ELSE calls,
              log |-> upserts \o Repeat("create_vector_chunk", calls),
              ret |-> AfterMetadata(failed)]

(***************************************************************************)
(* Calls of the adapter and of the pipeline                                *)
(***************************************************************************)
MaxVectors == 250     \* vectors of one call

ChunkCounts == {0, 1, 2}       \* chunks of a document
OtherMatches == {0, 1, 101}    \* what the second and third strategy match

NoBatchIn == [fail_at |-> 0, by_user_file |-> << >>, by_file |-> << >>, nchunks |-> 0,
              supabase |-> FALSE, meta_fail_at |-> 0, verified |-> TRUE]
NoBatch == [pc |-> "none", op |-> "none", vectors |-> << >>, in |-> NoBatchIn,
            requests |-> << >>, rows |-> 0, log |-> << >>, ret |-> "none"]

\* a call of upsert_embeddings
UpsertEmbeddings ==
    /\ batch.pc = "input"
    /\ \E fail_at \in 0..Len(Batched(batch.vectors)) :
         LET r == upsert_embeddings(batch.vectors, cfg.pinecone, fail_at) IN
         batch' = [batch EXCEPT !.pc = "done", !.op = "upsert_embeddings",
                                !.in = [NoBatchIn EXCEPT !.fail_at = fail_at],
                                !.requests = r.requests, !.ret = r.ret]
    /\ UNCHANGED <<appVars, parse, extract>>

\* a call of delete_document_vectors for a document of batch.vectors
DeleteDocumentVectors ==
    /\ batch.pc = "input"
    /\ \E verified \in BOOLEAN :
         LET r == delete_document_vectors(batch.vectors, cfg.pinecone, verified) IN
         batch' = [batch EXCEPT !.pc = "done", !.op = "delete_document_vectors",
                                !.in = [NoBatchIn EXCEPT !.verified = verified],
                                !.requests = r.requests, !.ret = r.ret]
    /\ UNCHANGED <<appVars, parse, extract>>

\* a call of delete_document_vectors_comprehensive for a document of
\* batch.vectors and a file name other vectors carry as well
DeleteDocumentVectorsComprehensive ==
    /\ batch.pc = "input"
    /\ \E n2 \in OtherMatches, n3 \in OtherMatches, verified \in BOOLEAN :
         LET r == delete_document_vectors_comprehensive(batch.vectors, Ids(n2), Ids(n3),
                                                        cfg.pinecone, verified) IN
         batch' = [batch EXCEPT !.pc = "done",
                                !.op = "delete_document_vectors_comprehensive",
                                !.in = [NoBatchIn EXCEPT !.by_user_file = Ids(n2),
                                                         !.by_file = Ids(n3),
                                                         !.verified = verified],
                                !.requests = r.requests, !.ret = r.ret]
    /\ UNCHANGED <<appVars, parse, extract>>

\* a call of process_document_pipeline whose vectors are batch.vectors
ProcessDocumentPipeline ==
    /\ batch.pc = "input"
    /\ \E fail_at \in 0..Len(Batched(batch.vectors)), nchunks \in ChunkCounts,
          supabase \in BOOLEAN :
         \E meta_fail_at \in 0..nchunks :
            LET r == process_document_pipeline(batch.vectors, nchunks, cfg.pinecone,
                                               fail_at, supabase, meta_fail_at) IN
            batch' = [batch EXCEPT !.pc = "done", !.op = "process_document_pipeline",
                                   !.in = [NoBatchIn EXCEPT !.fail_at = fail_at,
                                                            !.nchunks = nchunks,
                                                            !.supabase = supabase,
                                                            !.meta_fail_at = meta_fail_at],
                                   !.requests = r.requests, !.rows = r.rows,
                                   !.log = r.log, !.ret = r.ret]
    /\ UNCHANGED <<appVars, parse, extract>>

(***************************************************************************)
(* Specification of the deletion path                                      *)
(***************************************************************************)
\* start-up: has_openai_key, and the vector store adapter after _initialize:
\* client and index ("ready"), client without index ("no_index": the index
\* was not found) or neither ("none": no API key, or initialisation raised)
Configs == [openai_key : BOOLEAN, pinecone : {"ready", "no_index", "none"}]
Available == [openai_key |-> TRUE, pinecone |-> "ready"]

InitStore(c) ==
    /\ cfg = c
    /\ piped = {}
    /\ index = [c2 \in Classes |-> 0]
    /\ docs = {}
    /\ files = {}
    /\ nextId = 0
    /\ nWrites = 0
    /\ tasks = [i \in DocIds |-> NoTask]
    /\ del = NoDel
    /\ req = NoReq
    /\ vecs = {}
    /\ out = NoOut

InitWith(c) ==
    /\ InitStore(c)
    /\ parse = NoParse
    /\ extract = NoExtract
    /\ batch = NoBatch

\* every service configured and reachable
Init == InitWith(Available)

\* any configuration
InitAnyConfig == \E c \in Configs : InitWith(c)

Next ==
    \/ Upload
    \/ Upsert
    \/ DeleteRequest
    \/ Strategy1
    \/ Strategy2
    \/ Strategy3
    \/ Verify
    \/ DeleteCleanup

Spec == Init /\ [][Next]_vars

(***************************************************************************)
(* Specification of the ingestion path                                     *)
(***************************************************************************)
NextIngest ==
    \/ Upload
    \/ TaskStartStep
    \/ TaskProcessStep
    \/ TaskExceptStep
    \/ Reprocess

SpecIngest == InitAnyConfig /\ [][NextIngest]_vars

(***************************************************************************)
(* Specification of a deletion racing the ingestion tasks                  *)
(***************************************************************************)
\* the upload of the document the race is about
UploadFirst == nextId = 0 /\ Upload

NextRace ==
    \/ UploadFirst
    \/ TaskStartStep
    \/ TaskProcessStep
    \/ TaskExceptStep
    \/ DeleteRequest
    \/ Strategy1
    \/ Strategy2
    \/ Strategy3
    \/ Verify
    \/ DeleteCleanup

SpecRace == Init /\ [][NextRace]_vars

(***************************************************************************)
(* Specification of the retrieval path                                     *)
(***************************************************************************)
NextSearch ==
    \/ UpsertVec
    \/ SearchSimilar
    \/ SearchDocuments
    \/ SearchFieldMatches
    \/ MatchFormField
    \/ Return

SpecSearch == InitAnyConfig /\ [][NextSearch]_vars

(***************************************************************************)
(* Specification of the transaction parser                                 *)
(***************************************************************************)
InitParse ==
    /\ InitStore(Available)
    /\ \E in \in Inputs : parse = [NoParse EXCEPT !.pc = "input", !.in = in]
    /\ extract = NoExtract
    /\ batch = NoBatch

NextParse ==
    \/ ParseTransactions
    \/ ExtractDate
    \/ ExtractDateAgain

SpecParse == InitParse /\ [][NextParse]_vars

(***************************************************************************)
(* Specification of the field extractor                                    *)
(***************************************************************************)
InitExtract ==
    /\ InitStore(Available)
    /\ parse = NoParse
    /\ \E t \in ExtractTypes :
          \E f \in ListsUpTo(Found(t), MaxMatches) :
             extract = [NoExtract EXCEPT !.pc = "input", !.field_type = t, !.found = f]
    /\ batch = NoBatch

SpecExtract == InitExtract /\ [][ExtractFields]_vars

(***************************************************************************)
(* Specification of the adapter's requests                                 *)
(***************************************************************************)
InitBatch ==
    /\ \E c \in Configs : c.openai_key /\ InitStore(c)
    /\ parse = NoParse
    /\ extract = NoExtract
    /\ \E n \in 0..MaxVectors :
          batch = [NoBatch EXCEPT !.pc = "input", !.vectors = Ids(n)]

NextBatch ==
    \/ UpsertEmbeddings
    \/ DeleteDocumentVectors
    \/ DeleteDocumentVectorsComprehensive
    \/ ProcessDocumentPipeline

SpecBatch == InitBatch /\ [][NextBatch]_vars

(***************************************************************************)
(* Properties of the deletion path (checked under Spec)                    *)
(***************************************************************************)
DocFilter(d) == Filter({"doc_id"}, d, "u1", "a.pdf")
DocCount(d) == CountWhere(index, DocFilter(d))
UserFileCount(u, fn) == CountWhere(index, Filter({"user_id", "filename"}, StaleDoc, u, fn))

LogIdx == 1..Len(del.log)
AllCallsOk == \A i \in LogIdx : del.log[i].ok
QueryStrats ==
    LET qs == SelectSeq(del.log, LAMBDA e : e.op = "query")
    IN  [i \in 1..Len(qs) |-> qs[i].strat]
DeleteCalls == {i \in LogIdx : del.log[i].op = "delete"}
VerifyAnsweredEmpty ==
    /\ Len(del.log) > 0
    /\ del.log[Len(del.log)].strat = 4
    /\ del.log[Len(del.log)].ok
    /\ del.log[Len(del.log)].n = 0

\* C1 (as claimed): after N vectors tagged doc_id=X with one user_id and
\* filename were upserted and the comprehensive deletion for (X, user_id,
\* filename) has run to completion with no concurrent upsert - here even with
\* every index call of the run answered - a query by doc_id=X finds nothing.
C1_RoundTrip ==
    (del.pc = "done" /\ del.homog /\ ~del.dirty /\ AllCallsOk) => DocCount(del.doc_id) = 0

\* C2: the call returns true only if its final verification query was
\* answered with zero matches; if that query finds a match or raises, the
\* call returns false, and the verification query is the last index call of
\* the run (no further delete, no retry).
C2_VerificationDecides ==
    /\ \A i \in LogIdx : del.log[i].strat = 4 => i = Len(del.log)
    /\ del.pc = "done" =>
         /\ del.result \in {"true", "false"}
         /\ del.result = "true" => VerifyAnsweredEmpty
         /\ del.vout \in {"found", "error"} => del.result = "false"
         /\ del.log[Len(del.log)].strat = 4

C2_Witness == del.pc = "done" /\ del.vout = "found" /\ del.result = "false"

\* C3: the queries of a finished call are those of strategy 1, 2, 3 and the
\* verification, in that order, whatever failed on the way; during the call
\* they are a prefix of that order; the result is true exactly when the
\* verification query was answered with zero matches.
C3_StrategiesIndependent ==
    /\ del.pc # "idle" =>
         \A i \in 1..Len(QueryStrats) : QueryStrats[i] = i
    /\ del.pc = "done" =>
         /\ QueryStrats = <<1, 2, 3, 4>>
         /\ (del.result = "true") <=> VerifyAnsweredEmpty

C3_Witness ==
    /\ del.pc = "done"
    /\ del.result = "true"
    /\ \E i \in LogIdx : del.log[i].strat = 1 /\ ~del.log[i].ok
    /\ \E i \in LogIdx : del.log[i].strat = 3 /\ del.log[i].op = "delete" /\ del.log[i].ok

\* C4: a call all of whose queries are answered with no matches (the
\* document's vectors are already gone) issues no delete, deletes nothing
\* and returns true.
C4_Idempotent ==
    (del.pc = "done" /\ \A i \in LogIdx : del.log[i].ok /\ del.log[i].n = 0) =>
        /\ DeleteCalls = {}
        /\ del.total_deleted = 0
        /\ del.result = "true"

\* a second deletion of the same document (the first one removed its vectors
\* but failed to remove the record) finds nothing and returns true
C4_Witness ==
    /\ del.pc = "done"
    /\ del.result = "true"
    /\ \A i \in LogIdx : del.log[i].ok /\ del.log[i].n = 0
    /\ req.pc = "vectors"
    /\ files = {}
    /\ nextId > 0

\* C5 (as claimed): when delete_document has removed the record and answered
\* 200, the vector deletion returned true and (no upsert having run since the
\* deletion started) no vector with that doc_id is left in the index.
C5_DeleteLeavesNoVectors ==
    (req.pc = "done" /\ req.status = 200 /\ ~del.dirty) =>
        /\ req.deletion_success = "true"
        /\ DocCount(req.doc_id) = 0

\* strategy i ran to its end and saw everything its filter matches
StrategyClean(i) ==
    \E j \in LogIdx :
        /\ del.log[j].strat = i /\ del.log[j].op = "query" /\ del.log[j].ok
        /\ del.log[j].n < TopKAll
        /\ del.log[j].n > 0 =>
              (j + 1 \in LogIdx /\ del.log[j + 1].op = "delete" /\ del.log[j + 1].ok)

\* C6 (as claimed): when the call returns true (no concurrent upsert, and
\* strategy 1 having run without an exception), no vector of the document
\* remains: none tagged with its doc_id and none carrying its user_id and
\* filename under another doc_id - whatever happened in strategy 2 and 3.
C6_NoOrphans ==
    (del.pc = "done" /\ del.result = "true" /\ ~del.dirty /\ StrategyClean(1)) =>
        /\ DocCount(del.doc_id) = 0
        /\ UserFileCount(del.user_id, del.filename) = 0

\* C6 (amended): when the call returns true (no concurrent upsert), no vector
\* tagged with the document's doc_id remains; vectors carrying its user_id and
\* filename under another doc_id are gone if strategy 2 or strategy 3 ran
\* without an exception and matched fewer vectors than its top_k.
C6_NoOrphansAmended ==
    (del.pc = "done" /\ del.result = "true" /\ ~del.dirty) =>
        /\ DocCount(del.doc_id) = 0
        /\ (StrategyClean(2) \/ StrategyClean(3)) =>
              UserFileCount(del.user_id, del.filename) = 0

C6_Witness ==
    /\ del.pc = "done" /\ del.result = "true" /\ ~del.dirty
    /\ StrategyClean(1)
    /\ \E i \in LogIdx : /\ del.log[i].strat = 2 /\ del.log[i].op = "delete"
                         /\ del.log[i].ok /\ del.log[i].n = 1
    /\ ~StrategyClean(3)

\* C7 (as claimed): the call never deletes a vector of another user - here
\* restricted to vectors tagged with another doc_id, i.e. vectors of another
\* document.
C7_TenantIsolation ==
    [][\A c \in Classes :
         (index'[c] < index[c] /\ c.doc_id # del.doc_id) => c.user_id = del.user_id]_vars

(***************************************************************************)
(* Properties of the retrieval path (checked under SpecSearch)             *)
(***************************************************************************)
\* the vectors the returned results are built from
OutVecs ==
    IF out.op = "match_form_field" THEN out.ret.match.srcs
    ELSE {r.vec : r \in out.ret}

\* the calls of the retrieval service
RagOps == {"search_documents", "search_field_matches", "match_form_field"}

\* the vectors of the index that belong to the calling user
OwnVecs == {v \in vecs : v.user_id = out.user_id}

\* what the call recorded in out can return over the index content V
CallOn(V) ==
    IF out.op = "search_documents"
    THEN search_documents(V, out.query, out.user_id, TOP_K)
    ELSE IF out.op = "search_field_matches"
    THEN search_field_matches(V, out.query, out.user_id, out.field_type, FieldTopK)
    ELSE match_form_field(V, out.query, out.field_type, NoContext, out.user_id, out.ai,
                          out.fault)

\* C8: every result of search_documents, search_field_matches and
\* match_form_field called for user U is built from a vector whose user_id
\* is U, and the results the call can return are the same as over an index
\* holding U's vectors only: the vectors of other users never change them.
C8_RetrievalIsolation ==
    (out.op \in RagOps /\ ~out.raised) =>
        /\ \A v \in OutVecs : v.user_id = out.user_id
        /\ out.ret \in CallOn(OwnVecs)
        /\ CallOn(vecs) = CallOn(OwnVecs)

\* a field match was returned to a user while another user's stored field of
\* a searched type scores higher for the label than the one returned
C8_Witness ==
    /\ out.op = "match_form_field"
    /\ out.fault = "none"
    /\ out.ret.matched
    /\ out.ret.match.source = "field"
    /\ \E v \in vecs, w \in out.ret.match.srcs :
          /\ v.user_id # out.user_id
          /\ v.type = "field"
          /\ v.field_type \in SearchAttempts(out.field_type)
          /\ Similarity(v.emb, Embed(out.query)) * v.confidence
                > Similarity(w.emb, Embed(out.query)) * w.confidence

(***************************************************************************)
(* Properties of the ingestion path (checked under SpecIngest)             *)
(***************************************************************************)
\* C9: every vector upserted while ingesting an uploaded document carries
\* the doc_id of that document's record (an id upload returned) and the
\* user_id of the user who uploaded it.
C9_VectorsCarryRecordIds ==
    \A c \in Classes :
        index[c] > 0 =>
            /\ c.doc_id \in 1..nextId
            /\ c.user_id = tasks[c.doc_id].user_id

StatusStep(from, to) ==
    \/ from = "uploaded" /\ to = "processing"
    \/ from = "processing" /\ to \in {"completed", "failed"}

\* C10: the processing_status of a document record changes only along
\* uploaded -> processing -> completed or failed: completed and failed are
\* set only from processing, and a completed or failed record is never
\* changed again by an ingestion task.
C10_StatusTransitions ==
    [][\A r \in docs, r2 \in docs' :
          (r.doc_id = r2.doc_id /\ r.processing_status # r2.processing_status)
              => StatusStep(r.processing_status, r2.processing_status)]_vars

\* the record created by the upload that started task id, if it is there
OwnRecord(id) == {r \in docs : r.doc_id = id}

\* C11: ingestion tasks are independent: a step of the task started for
\* document id changes the status of no record but that of document id, and
\* the doc_id the task works under (and attaches transactions to) is id, also
\* when the same user uploads two documents with the same filename.
C11_TasksIndependent ==
    [][\A id \in DocIds :
          (tasks[id].pc # "none" /\ tasks'[id] # tasks[id]) =>
              /\ tasks'[id].doc_id \in {0, id}
              /\ \A r \in docs, r2 \in docs' :
                    (r.doc_id = r2.doc_id /\ r.processing_status # r2.processing_status)
                        => r.doc_id = id]_vars

\* C12: when a task has ended and no call on the metadata store raised, the
\* document it was started for is completed or failed, not uploaded or
\* processing.
C12_TaskEndsDecided ==
    \A id \in DocIds :
        (tasks[id].pc = "done" /\ \A j \in DocIds : ~tasks[j].faulted) =>
            \A r \in OwnRecord(id) : r.processing_status \in {"completed", "failed"}

\* C13: without an OpenAI key generate_embeddings and
\* generate_field_embeddings return the empty list (no exception), so a run
\* of the pipeline upserts no vector, and no record is marked completed.
C13_NoKeyNoIndexing ==
    ~cfg.openai_key =>
        /\ \A nc, nf \in 0..2 : /\ generate_embeddings(nc, cfg.openai_key) = 0
                                /\ generate_field_embeddings(nf, cfg.openai_key) = 0
                                /\ ~PipelineRaises(PipelineVectors(nc, nf, cfg.openai_key),
                                                   cfg.pinecone)
        /\ Total(index) = 0
        /\ \A r \in docs : r.processing_status # "completed"

\* a document went through the pipeline with no key configured, the vector
\* store being ready
C13_Witness == ~cfg.openai_key /\ cfg.pinecone = "ready" /\ piped # {}


(***************************************************************************)
(* Properties of the retrieval path under faults (checked under SpecSearch)*)
(***************************************************************************)
\* C14: called while the vector store is unavailable (no client, or no
\* index), search_similar returns the empty list and does not raise.
C14_UnavailableIsNeutral ==
    (out.op = "search_similar" /\ cfg.pinecone # "ready") =>
        (~out.raised /\ out.ret = {})


\* C15: match_form_field returns a result whatever fails inside it.  When
\* the embedding of a query, a query of the vector store or the fallback's
\* document search raises, the result is matched = false, confidence 0 and
\* no match (the fallback is not run, and cannot fail, after a field match
\* of confidence 0.3 or more); when only the language model raises, the result is one the
\* call can return when the model gives no value, a field match included.
C15_FailuresDegrade ==
    out.op = "match_form_field" =>
        /\ ~out.raised
        /\ out.fault \in {"embed", "query"} =>
              (~out.ret.matched /\ out.ret.confidence = 0 /\ out.ret.match = NoMatch)
        /\ out.fault = "doc_search" =>
              \/ ~out.ret.matched /\ out.ret.confidence = 0 /\ out.ret.match = NoMatch
              \/ out.ret.match.source = "field" /\ out.ret.confidence >= MatchThreshold
        /\ out.fault = "ai" =>
              /\ out.ret \in match_form_field(vecs, out.query, out.field_type, NoContext,
                                              out.user_id, FALSE, "none")
              /\ out.ret.match.source # "ai"

\* the fallback's document search raised after the field searches had found
\* a candidate below 0.3
C15_Witness ==
    /\ out.op = "match_form_field"
    /\ out.fault = "doc_search"
    /\ \E r \in match_form_field(vecs, out.query, out.field_type, NoContext,
                                 out.user_id, FALSE, "none") :
          r.matched /\ r.confidence < MatchThreshold

\* the language model raised and the field search's candidate was returned
C15_WitnessAi ==
    /\ out.op = "match_form_field"
    /\ out.fault = "ai"
    /\ out.ai
    /\ out.ret.matched
    /\ out.ret.match.source = "field"
    /\ out.ret.confidence < MatchThreshold


\* C16: match_form_field reports matched = true only with a confidence of
\* 0.3 or more: a field candidate whose combined confidence is below 0.3 is
\* never returned as the match.
C16_MatchedAboveThreshold ==
    (out.op = "match_form_field" /\ out.ret.matched) =>
        out.ret.confidence >= MatchThreshold


\* the stored phone fields of the calling user that a field search for the
\* query q returns in some answer
OwnPhoneHits(q) ==
    {m \in UNION search_field_matches(vecs, q, out.user_id, out.field_type, MatchTopK) :
        m.vec.user_id = out.user_id /\ m.vec.field_type = "phone"}

\* C17: for a form field of type tel whose label contains 'phone', the field
\* index is searched under the stored type 'phone', and when no step fails
\* and a search returns a stored phone field of the user, match_form_field
\* returns matched = true with the value of a phone field of the user and a
\* combined confidence of 0.3 or more.
C17_TelRemap ==
    (/\ out.op = "match_form_field"
     /\ out.field_type = "tel"
     /\ Contains(out.query, <<"phone">>)) =>
        /\ SearchAttempts(out.field_type) = {"phone"}
        /\ (/\ out.fault = "none"
            /\ \E q \in SearchQueries(out.query, out.field_type, NoContext) :
                  OwnPhoneHits(q) # {}) =>
              /\ out.ret.matched
              /\ out.ret.confidence >= MatchThreshold
              /\ out.ret.match.source = "field"
              /\ \A v \in out.ret.match.srcs :
                    v.user_id = out.user_id /\ v.field_type = "phone"

\* a tel field labelled 'phone' was matched against an index holding a phone
\* field of the user of low extraction confidence and a chunk
C17_Witness ==
    /\ out.op = "match_form_field"
    /\ out.field_type = "tel"
    /\ Contains(out.query, <<"phone">>)
    /\ out.fault = "none"
    /\ out.ret.matched
    /\ \E v \in out.ret.match.srcs : v.field_type = "phone" /\ v.confidence = 50
    /\ \E v \in vecs : v.user_id = out.user_id /\ v.type = "chunk"


\* the similarity scores the index can report
Scores == {Similarity(e, q) : e \in Embs, q \in {Embed(x) : x \in Queries \cup Labels}}

\* for two candidates that differ in the similarity score only, the one
\* with the higher score has a combined confidence that is not lower
Monotone ==
    \A v \in FieldVecs, s1 \in Scores, s2 \in Scores, label \in Labels :
        s1 <= s2 =>
            CombinedConfidence(FormatField([vec |-> v, score |-> s1]), label)
                <= CombinedConfidence(FormatField([vec |-> v, score |-> s2]), label)

\* the highest combined confidence among the candidates of the four
\* queries of the call recorded in out, for each answer the searches can give
MaxCombined ==
    {MaxOf({CombinedConfidence(m, out.query) : m \in M}) :
        M \in FieldMatchesOver(vecs, SearchQueries(out.query, out.field_type, NoContext),
                               out.user_id, out.field_type)}

C20_RankedList ==
    (out.op = "search_documents" /\ ~out.raised) =>
        \A l \in ResultLists(out.ret) :
            \A i, j \in 1..Len(l) : i < j => l[i].score >= l[j].score


(***************************************************************************)
(* Properties of the transaction parser (checked under SpecParse)          *)
(***************************************************************************)
\* C21: a line made of a leading MM/DD/YY date, a description and a
\* trailing amount parses to exactly one transaction, whose date is that
\* date as YYYY-MM-DD, whose description is the whole text between the date
\* and the amount, whose amount is the trailing amount and whose confidence
\* is above 0.8.
C21_LineParses ==
    (/\ parse.pc = "parsed"
     /\ parse.in.layout = "date_first"
     /\ parse.in.form = "MM/DD/YY") =>
        /\ Len(parse.txns) = 1
        /\ parse.txns[1].date = Strftime(parse.in.date.y, parse.in.date.m, parse.in.date.d)
        /\ parse.txns[1].description = parse.in.description
        /\ parse.txns[1].amount = parse.in.amount
        /\ parse.txns[1].confidence > 8


\* C27: every transaction parse_transactions returns has confidence 1.0,
\* an amount of 0 included.
C27_ConfidenceIsOne ==
    parse.pc = "parsed" =>
        \A i \in 1..Len(parse.txns) : parse.txns[i].confidence = 10

\* C28: a valid date written in one of the four accepted forms is
\* normalised to that same date in YYYY-MM-DD form, and normalising the
\* result again returns it unchanged.
C28_DateNormalised ==
    /\ parse.pc \in {"dated", "redated"} =>
          parse.date = Strftime(parse.in.date.y, parse.in.date.m, parse.in.date.d)
    /\ parse.pc = "redated" => parse.again = parse.date

(***************************************************************************)
(* Properties of the field extractor (checked under SpecExtract)           *)
(***************************************************************************)
\* C22: every candidate the extractor returns has a confidence between 0
\* and 1, whatever type-specific score, context boost and short-value
\* penalty applied to it.
C22_ConfidenceInUnitInterval ==
    extract.pc = "done" =>
        \A i \in 1..Len(extract.ret) :
            /\ extract.ret[i].confidence >= 0
            /\ extract.ret[i].confidence <= 1000
            /\ extract.ret[i].confidence =
                  calculate_field_confidence(extract.field_type, extract.ret[i].value,
                                             extract.ret[i].context)

\* a returned candidate whose score and boost add up to more than 1, and
\* one that was boosted and halved
C22_Witness ==
    /\ extract.pc = "done"
    /\ \E i \in 1..Len(extract.ret) :
          Adjusted(extract.field_type, extract.ret[i].value, extract.ret[i].context) > 1000
    /\ \E i \in 1..Len(extract.ret) :
          /\ Len(extract.ret[i].value) < 3
          /\ HasSub(Lower(extract.ret[i].context), TypeText(extract.field_type))

\* C23: the list returned for a field type has at most 3 entries, their
\* lower-cased values are pairwise distinct, and they are in non-increasing
\* order of confidence.
C23_TopThreeDistinctSorted ==
    extract.pc = "done" =>
        /\ Len(extract.ret) <= 3
        /\ \A i, j \in 1..Len(extract.ret) :
              i < j => /\ Lower(extract.ret[i].value) # Lower(extract.ret[j].value)
                       /\ extract.ret[i].confidence >= extract.ret[j].confidence

\* four matches were found, two of them the same value in another case,
\* the later ones with the higher confidence
C23_Witness ==
    /\ extract.pc = "done"
    /\ Len(extract.found) = 4
    /\ Len(extract.ret) = 3
    /\ \E i, j \in 1..4 : /\ i # j
                          /\ extract.found[i].value # extract.found[j].value
                          /\ Lower(extract.found[i].value) = Lower(extract.found[j].value)
    /\ extract.ret[1].value # extract.found[1].value


(***************************************************************************)
(* Properties of the adapter's requests (checked under SpecBatch)          *)
(***************************************************************************)
RECURSIVE Flatten(_)
Flatten(R) == IF R = << >> THEN << >> ELSE Head(R) \o Flatten(Tail(R))

\* C24: upsert_embeddings over N vectors sends ceil(N/100) upsert requests,
\* each of at most 100 vectors, and the requests in order make up exactly
\* the input list.
C24_UpsertBatches ==
    (batch.pc = "done" /\ batch.op = "upsert_embeddings" /\ batch.ret = "True") =>
        LET N == Len(batch.vectors)
            R == Len(batch.requests) IN
        /\ R * 100 >= N
        /\ (R - 1) * 100 < N
        /\ N = 0 => R = 0
        /\ \A k \in 1..R : Len(batch.requests[k]) \in 1..100
        /\ Flatten(batch.requests) = batch.vectors

\* an upsert of more than two full requests and a rest
C24_Witness ==
    /\ batch.pc = "done"
    /\ batch.op = "upsert_embeddings"
    /\ batch.ret = "True"
    /\ Len(batch.vectors) > 200
    /\ Len(batch.requests) = 3
    /\ Len(batch.requests[3]) < 100

\* C25: every delete request the adapter sends carries at most 100 ids, in
\* delete_document_vectors and in each strategy of the comprehensive
\* deletion.
C25_DeleteBatches ==
    (batch.pc = "done" /\ batch.op \in {"delete_document_vectors",
                                        "delete_document_vectors_comprehensive"}) =>
        \A k \in 1..Len(batch.requests) : Len(batch.requests[k]) <= 100

\* C26: the pipeline upserts before it writes any chunk metadata, and a
\* failed chunk-metadata write changes neither what the pipeline returns
\* nor what it sent to the index.
C26_MetadataBestEffort ==
    (batch.pc = "done" /\ batch.op = "process_document_pipeline") =>
        LET all_ok == process_document_pipeline(batch.vectors, batch.in.nchunks,
                                                cfg.pinecone, batch.in.fail_at,
                                                batch.in.supabase, 0) IN
        /\ \A i, j \in 1..Len(batch.log) :
              (batch.log[i] = "upsert" /\ batch.log[j] = "create_vector_chunk") => i < j
        /\ batch.ret = all_ok.ret
        /\ batch.requests = all_ok.requests
        /\ (batch.in.supabase /\ batch.in.meta_fail_at # 0 /\ batch.log # << >>
              /\ batch.log[Len(batch.log)] = "create_vector_chunk") =>
                 /\ batch.ret = "True"
                 /\ Flatten(batch.requests) = batch.vectors \/ cfg.pinecone = "none"

\* a pipeline run that upserted vectors and whose second metadata write failed
C26_Witness ==
    /\ batch.pc = "done"
    /\ batch.op = "process_document_pipeline"
    /\ batch.in.supabase
    /\ batch.in.meta_fail_at = 2
    /\ batch.rows = 1
    /\ Len(batch.requests) = 2
    /\ batch.ret = "True"


(***************************************************************************)
(* Properties of a deletion racing ingestion (checked under SpecRace)      *)
(***************************************************************************)
\* the vectors an ingestion task writes for its file: those of its user and
\* file name
TaskVectors(id) == UserFileCount(tasks[id].user_id, tasks[id].filename)

Deleted(id) == req.pc = "done" /\ req.status = 200 /\ req.doc_id = id

C29_BothEnded ==
    \E id \in DocIds : Deleted(id) /\ tasks[id].pc = "done" /\ tasks[id].doc_id = id

====
